---- MODULE Spec2Model ----
(***************************************************************************)
(* State-vector engine and circuit orchestrator of the quantum computing   *)
(* simulator (StateVectorEngine, CircuitSimulator) with the gate catalog   *)
(* of core/math/gates.ts.                                                  *)
(*                                                                         *)
(* Numbers.  The engine computes on IEEE doubles.  The model computes      *)
(* exactly in the ring D[sqrt 2] of the numbers (a + b*sqrt(2)) / 2^k,     *)
(* which holds every entry of every catalog matrix (0, 1, -1, 1/sqrt 2)    *)
(* and is closed under the engine's additions and multiplications.  A      *)
(* property stated "within 1e-9" in floating point is stated exactly here. *)
(* Two more values stand for the doubles NaN and Infinity.                 *)
(***************************************************************************)
EXTENDS Integers, Sequences, FiniteSets, TLC

(***************************************************************************)
(* Bounds of the model.                                                    *)
(***************************************************************************)
MaxCalls == 2
MaxShots == 2
MaxOps == 2

\* the qubit counts of the states the sessions work on
QubitCounts == {1, 2}

(***************************************************************************)
(* Exact numbers: [a, b, k] is (a + b*sqrt(2)) / 2^k, kept reduced.        *)
(***************************************************************************)
RECURSIVE Pow2(_)
Pow2(k) == IF k <= 0 THEN 1 ELSE 2 * Pow2(k - 1)

RECURSIVE Reduce(_, _, _)
Reduce(a, b, k) ==
    IF k > 0 /\ a % 2 = 0 /\ b % 2 = 0
    THEN Reduce(a \div 2, b \div 2, k - 1)
    ELSE [a |-> a, b |-> b, k |-> k]

NaN == [a |-> 0, b |-> 0, k |-> -1]
Infinity == [a |-> 1, b |-> 0, k |-> -1]
IsFinite(x) == x.k >= 0

Num(a, b, k) == Reduce(a, b, k)
Zero == Num(0, 0, 0)
One == Num(1, 0, 0)
MinusOne == Num(-1, 0, 0)
Half == Num(1, 0, 1)
InvSqrt2 == Num(0, 1, 1)

MaxOf(x, y) == IF x >= y THEN x ELSE y

Add(x, y) ==
    IF ~IsFinite(x) \/ ~IsFinite(y) THEN NaN
    ELSE LET K == MaxOf(x.k, y.k)
         IN  Reduce(x.a * Pow2(K - x.k) + y.a * Pow2(K - y.k),
                    x.b * Pow2(K - x.k) + y.b * Pow2(K - y.k), K)

Neg(x) == IF ~IsFinite(x) THEN x ELSE [a |-> -x.a, b |-> -x.b, k |-> x.k]

Sub(x, y) == Add(x, Neg(y))

Mul(x, y) ==
    IF ~IsFinite(x) \/ ~IsFinite(y) THEN NaN
    ELSE Reduce(x.a * y.a + 2 * x.b * y.b, x.a * y.b + x.b * y.a, x.k + y.k)

\* the sign of a + b*sqrt(2)
Sign(x) ==
    LET a == x.a
        b == x.b
    IN  IF a = 0 /\ b = 0 THEN 0
        ELSE IF a >= 0 /\ b >= 0 THEN 1
        ELSE IF a <= 0 /\ b <= 0 THEN -1
        ELSE IF a > 0 THEN (IF a * a > 2 * b * b THEN 1 ELSE -1)
        ELSE (IF 2 * b * b > a * a THEN 1 ELSE -1)

\* x < y on doubles: false as soon as either side is NaN
Less(x, y) == IsFinite(x) /\ IsFinite(y) /\ Sign(Sub(y, x)) = 1

\* Math.sqrt, where the root lies in the number domain
SqrtCandidates ==
    {Num(a, b, k) : a \in 0..2, b \in -1..1, k \in 0..3}

HasSqrt(x) ==
    ~IsFinite(x) \/ \E r \in SqrtCandidates : Sign(r) >= 0 /\ Mul(r, r) = x

Sqrt(x) ==
    IF ~IsFinite(x) THEN NaN
    ELSE CHOOSE r \in SqrtCandidates : Sign(r) >= 0 /\ Mul(r, r) = x

\* the norm a^2 - 2*b^2 of the numerator; x is invertible in the domain
\* when it is plus or minus a power of two
NormOf(x) == x.a * x.a - 2 * x.b * x.b

Abs(n) == IF n < 0 THEN -n ELSE n

RECURSIVE Log2(_)
Log2(n) == IF n <= 1 THEN 0 ELSE 1 + Log2(n \div 2)

IsPow2(n) == n >= 1 /\ Pow2(Log2(n)) = n

Invertible(x) == IsFinite(x) /\ IsPow2(Abs(NormOf(x)))

\* x / y on doubles: 0/0 is NaN, x/0 is infinite
Div(x, y) ==
    IF ~IsFinite(x) \/ ~IsFinite(y) THEN NaN
    ELSE IF Sign(y) = 0 THEN (IF Sign(x) = 0 THEN NaN ELSE Infinity)
    ELSE LET n == NormOf(y)
             m == Log2(Abs(n))
             s == IF n < 0 THEN -1 ELSE 1
             \* 1/y = 2^(y.k) * (y.a - y.b*sqrt 2) / n
             conj == [a |-> s * y.a, b |-> -s * y.b, k |-> 0]
             p == Mul(x, conj)
         IN  IF y.k >= m
             THEN Reduce(p.a * Pow2(y.k - m), p.b * Pow2(y.k - m), p.k)
             ELSE Reduce(p.a, p.b, p.k + (m - y.k))

(***************************************************************************)
(* A store into a Float32Array rounds the double to the nearest number     *)
(* with 24 significant binary digits, ties to the even one.  A dyadic      *)
(* number is rounded exactly.  A number with an irrational part is first   *)
(* written over 2^30 with sqrt(2) * 2^30 = 1518500250 = Sqrt2High * 2^15 + *)
(* Sqrt2Low, in two limbs of base 2^15 so that no product leaves 32 bits;  *)
(* that is 30 binary digits, six more than the rounding keeps.             *)
(***************************************************************************)
RECURSIVE BitLength(_)
\* the number of binary digits of n >= 0
BitLength(n) == IF n <= 0 THEN 0 ELSE 1 + BitLength(n \div 2)

\* n / 2^d rounded to the nearest integer, ties to the even one
RoundShift(n, d) ==
    IF d <= 0 THEN n
    ELSE LET q == n \div Pow2(d)
             r == n % Pow2(d)
             half == Pow2(d - 1)
         IN  IF r > half \/ (r = half /\ q % 2 = 1) THEN q + 1 ELSE q

Sqrt2High == 46340
Sqrt2Low == 31130
LimbBase == 32768

\* the rounding of a / 2^k, a > 0
RoundDyadic(a, k) ==
    LET d == BitLength(a) - 24
    IN  IF d <= 0 \/ d > k THEN Num(a, 0, k)
        ELSE Num(RoundShift(a, d), 0, k - d)

\* the rounding of (a + b*sqrt(2)) / 2^k > 0, b # 0
RoundIrrational(a, b, k) ==
    LET t == b * Sqrt2Low
        hi == a * LimbBase + b * Sqrt2High + (t \div LimbBase)
        lo == t % LimbBase
        d == BitLength(hi) - 9
    IN  IF d <= 0 THEN Num(hi * LimbBase + lo, 0, k + 30)
        ELSE IF d <= 15
        THEN LET q == hi * Pow2(15 - d) + (lo \div Pow2(d))
                 r == lo % Pow2(d)
                 half == Pow2(d - 1)
             IN  Num(IF r > half \/ (r = half /\ q % 2 = 1) THEN q + 1 ELSE q,
                     0, k + 30 - d)
        ELSE Num(RoundShift(hi, d - 15), 0, k + 30 - d)

\* Math.fround: what a Float32Array element holds after x is stored
fround(x) ==
    IF ~IsFinite(x) \/ Sign(x) = 0 THEN x
    ELSE LET y == IF Sign(x) < 0 THEN Neg(x) ELSE x
             r == IF y.b = 0 THEN RoundDyadic(y.a, y.k)
                  ELSE RoundIrrational(y.a, y.b, y.k)
         IN  IF Sign(x) < 0 THEN Neg(r) ELSE r

(***************************************************************************)
(* Complex numbers (core/math/complex.ts) and the gate catalog             *)
(* (core/math/gates.ts).  A matrix is a sequence of rows; M(m, r, c) is    *)
(* the source's m[r][c] with its zero-based indices.                       *)
(***************************************************************************)
create(real, imag) == [real |-> real, imag |-> imag]

add(a, b) == [real |-> Add(a.real, b.real), imag |-> Add(a.imag, b.imag)]

multiply(a, b) ==
    [real |-> Sub(Mul(a.real, b.real), Mul(a.imag, b.imag)),
     imag |-> Add(Mul(a.real, b.imag), Mul(a.imag, b.real))]

magSquared(a) == Add(Mul(a.real, a.real), Mul(a.imag, a.imag))

C0 == create(Zero, Zero)
C1r == create(One, Zero)

M(matrix, r, c) == matrix[r + 1][c + 1]

createGate(name, matrix, qubits) ==
    [name |-> name, matrix |-> matrix, qubits |-> qubits]

identity == createGate("identity", << <<C1r, C0>>, <<C0, C1r>> >>, 1)

pauliX == createGate("pauliX", << <<C0, C1r>>, <<C1r, C0>> >>, 1)

pauliY == createGate("pauliY",
    << <<C0, create(Zero, MinusOne)>>, <<create(Zero, One), C0>> >>, 1)

pauliZ == createGate("pauliZ", << <<C1r, C0>>, <<C0, create(MinusOne, Zero)>> >>, 1)

hadamard == createGate("hadamard",
    << <<create(InvSqrt2, Zero), create(InvSqrt2, Zero)>>,
       <<create(InvSqrt2, Zero), create(Neg(InvSqrt2), Zero)>> >>, 1)

sGate == createGate("sGate", << <<C1r, C0>>, <<C0, create(Zero, One)>> >>, 1)

tGate == createGate("tGate",
    << <<C1r, C0>>, <<C0, create(InvSqrt2, InvSqrt2)>> >>, 1)

cnot == createGate("cnot",
    << <<C1r, C0, C0, C0>>,
       <<C0, C1r, C0, C0>>,
       <<C0, C0, C0, C1r>>,
       <<C0, C0, C1r, C0>> >>, 2)

\* the three-qubit gate with no exchange: the identity
toffoli_Diagonal ==
    createGate("toffoli", [r \in 1..8 |-> [c \in 1..8 |-> IF c = r THEN C1r ELSE C0]], 3)

toffoli == createGate("toffoli",
    [r \in 1..8 |-> [c \in 1..8 |->
        IF r - 1 = 6 THEN (IF c - 1 = 7 THEN C1r ELSE C0)
        ELSE IF r - 1 = 7 THEN (IF c - 1 = 6 THEN C1r ELSE C0)
        ELSE IF c = r THEN C1r ELSE C0]], 3)

swap == createGate("swap",
    << <<C1r, C0, C0, C0>>,
       <<C0, C0, C1r, C0>>,
       <<C0, C1r, C0, C0>>,
       <<C0, C0, C0, C1r>> >>, 2)

standardGates ==
    {identity, pauliX, pauliY, pauliZ, hadamard, sGate, tGate, cnot, toffoli, swap}

(***************************************************************************)
(* Index arithmetic of the engine.  A qubit index read past the end of a   *)
(* targets list is undefined, which the shift operators coerce to 0.       *)
(***************************************************************************)
Undefined == -1

ElementAt(list, j) == IF j + 1 \in DOMAIN list THEN list[j + 1] ELSE Undefined

ShiftCount(q) == IF q = Undefined THEN 0 ELSE q

\* (i >> q) & 1
Bit(i, q) == (i \div Pow2(ShiftCount(q))) % 2

\* i | (1 << q)
Flip_Or(i, q) == IF Bit(i, q) = 0 THEN i + Pow2(ShiftCount(q)) ELSE i

\* i ^ (1 << q)
Flip(i, q) ==
    IF Bit(i, q) = 0 THEN i + Pow2(ShiftCount(q)) ELSE i - Pow2(ShiftCount(q))

\* a typed-array read: undefined (NaN in arithmetic) outside the buffer
Read(vector, idx) == IF idx \in DOMAIN vector THEN vector[idx] ELSE NaN

\* a typed-array write: ignored outside the buffer
Write(vector, idx, x) ==
    IF idx \in DOMAIN vector THEN [vector EXCEPT ![idx] = x] ELSE vector

NoProbabilities == << >>

(***************************************************************************)
(* StateVectorEngine.                                                      *)
(***************************************************************************)
\* 1 << qubits takes the shift count modulo 32; at 31 the result is negative
\* and new Float64Array(dim * 2) raises a RangeError
createStateThrows(qubits) == qubits % 32 = 31

createState(qubits) ==
    LET dim == Pow2(qubits % 32)
    IN  [qubits |-> qubits,
         vector |-> [idx \in 0..(dim * 2 - 1) |-> IF idx = 0 THEN One ELSE Zero],
         probabilities |-> NoProbabilities]

calculateProbabilities(state) ==
    LET dim == Pow2(state.qubits)
    IN  [i \in 0..(dim - 1) |->
            LET real == Read(state.vector, i * 2)
                imag == Read(state.vector, i * 2 + 1)
            IN  fround(Add(Mul(real, real), Mul(imag, imag)))]

applySingleQubitGate(state, matrix, targetQubit) ==
    LET qubits == state.qubits
        dim == Pow2(qubits)
        len == Cardinality(DOMAIN state.vector)
        Out(i) ==
            LET targetBit == Bit(i, targetQubit)
                flipped == Flip(i, targetQubit)
                curReal == Read(state.vector, i * 2)
                curImag == Read(state.vector, i * 2 + 1)
                flipReal == Read(state.vector, flipped * 2)
                flipImag == Read(state.vector, flipped * 2 + 1)
                \* the coefficient of the current and of the flipped amplitude
                mCur == IF targetBit = 0 THEN M(matrix, 0, 0) ELSE M(matrix, 1, 1)
                mFlip == IF targetBit = 0 THEN M(matrix, 0, 1) ELSE M(matrix, 1, 0)
                curTermReal == Sub(Mul(mCur.real, curReal), Mul(mCur.imag, curImag))
                curTermImag == Add(Mul(mCur.real, curImag), Mul(mCur.imag, curReal))
                flipTermReal == Sub(Mul(mFlip.real, flipReal), Mul(mFlip.imag, flipImag))
                flipTermImag == Add(Mul(mFlip.real, flipImag), Mul(mFlip.imag, flipReal))
            IN  create(Add(curTermReal, flipTermReal), Add(curTermImag, flipTermImag))
        result == [idx \in 0..(len - 1) |->
                      IF idx \div 2 < dim
                      THEN (IF idx % 2 = 0 THEN Out(idx \div 2).real
                                           ELSE Out(idx \div 2).imag)
                      ELSE Zero]
    IN  [qubits |-> qubits, vector |-> result, probabilities |-> NoProbabilities]

RECURSIVE CNOTLoop(_, _, _, _, _)
CNOTLoop(result, i, dim, controlQubit, targetQubit) ==
    IF i >= dim THEN result
    ELSE IF Bit(i, controlQubit) = 1
    THEN LET flipped == Flip(i, targetQubit)
             tempReal == Read(result, i * 2)
             tempImag == Read(result, i * 2 + 1)
             r1 == Write(result, i * 2, Read(result, flipped * 2))
             r2 == Write(r1, i * 2 + 1, Read(r1, flipped * 2 + 1))
             r3 == Write(r2, flipped * 2, tempReal)
             r4 == Write(r3, flipped * 2 + 1, tempImag)
         IN  CNOTLoop(r4, i + 1, dim, controlQubit, targetQubit)
    ELSE CNOTLoop(result, i + 1, dim, controlQubit, targetQubit)

applyCNOT(state, controlQubit, targetQubit) ==
    [qubits |-> state.qubits,
     vector |-> CNOTLoop(state.vector, 0, Pow2(state.qubits), controlQubit, targetQubit),
     probabilities |-> NoProbabilities]

\* the body of the two nested loops, step = i * 4 + j
RECURSIVE TwoQubitLoop(_, _, _, _, _, _)
TwoQubitLoop(result, state, matrix, qubit1, qubit2, step) ==
    IF step >= Pow2(state.qubits) * 4 THEN result
    ELSE LET i == step \div 4
             j == step % 4
             bit1 == Bit(i, qubit1)
             bit2 == Bit(i, qubit2)
             matrixIdx == bit1 * 2 + bit2
             newBit1 == (j \div 2) % 2
             newBit2 == j % 2
             s1 == IF bit1 # newBit1 THEN Flip(i, qubit1) ELSE i
             newState == IF bit2 # newBit2 THEN Flip(s1, qubit2) ELSE s1
             matrixElement == M(matrix, j, matrixIdx)
             inReal == Read(state.vector, i * 2)
             inImag == Read(state.vector, i * 2 + 1)
             termReal == Sub(Mul(matrixElement.real, inReal), Mul(matrixElement.imag, inImag))
             termImag == Add(Mul(matrixElement.real, inImag), Mul(matrixElement.imag, inReal))
             r1 == Write(result, newState * 2, Add(Read(result, newState * 2), termReal))
             r2 == Write(r1, newState * 2 + 1, Add(Read(r1, newState * 2 + 1), termImag))
         IN  CHOOSE looped \in {TwoQubitLoop(written, state, matrix, qubit1, qubit2,
                                              step + 1) : written \in {r2}} : TRUE

\* the block update reading the second qubit as the high bit
applyTwoQubitGate_LowFirst(state, matrix, qubit1, qubit2) ==
    [qubits |-> state.qubits,
     vector |-> TwoQubitLoop([idx \in 0..(Pow2(state.qubits) * 2 - 1) |-> Zero],
                             state, matrix, qubit2, qubit1, 0),
     probabilities |-> NoProbabilities]

applyTwoQubitGate(state, matrix, qubit1, qubit2) ==
    LET dim == Pow2(state.qubits)
    IN  [qubits |-> state.qubits,
         vector |-> TwoQubitLoop([idx \in 0..(dim * 2 - 1) |-> Zero],
                                 state, matrix, qubit1, qubit2, 0),
         probabilities |-> NoProbabilities]

\* the placeholder putting the block of the gate's matrix into the buffer of
\* the state it was given
applyGeneralGate_InPlace(state, operation) ==
    [state EXCEPT !.vector =
        applySingleQubitGate(state, operation.gate.matrix,
                             ElementAt(operation.targets, 0)).vector]

\* the placeholder handing back the state with its amplitudes cleared
applyGeneralGate_Cleared(state, operation) ==
    [state EXCEPT !.vector = [idx \in DOMAIN state.vector |-> Zero]]

\* the placeholder: warns on the console and hands back the state it was given
applyGeneralGate(state, operation) == state

SingleQubitShape(operation) ==
    /\ Len(operation.targets) # operation.gate.qubits
    /\ operation.gate.qubits = 1
    /\ Len(operation.controls) = 0

TwoQubitShape(operation) ==
    /\ operation.gate.qubits = 2
    /\ Len(operation.targets) = 2
    /\ Len(operation.controls) = 0

CNOTShape(operation) ==
    /\ operation.gate.name = "cnot"
    /\ Len(operation.targets) = 1
    /\ Len(operation.controls) = 1

\* which branch of applyGate an operation takes
Dispatch(operation) ==
    IF SingleQubitShape(operation) THEN "single"
    ELSE IF TwoQubitShape(operation) THEN "two"
    ELSE IF CNOTShape(operation) THEN "cnot"
    ELSE "general"

applyGate(state, operation) ==
    LET gate == operation.gate
        targets == operation.targets
        controls == operation.controls
    IN  CASE Dispatch(operation) = "single" ->
                applySingleQubitGate(state, gate.matrix, ElementAt(targets, 0))
          [] Dispatch(operation) = "two" ->
                applyTwoQubitGate(state, gate.matrix, ElementAt(targets, 0), ElementAt(targets, 1))
          [] Dispatch(operation) = "cnot" ->
                applyCNOT(state, ElementAt(controls, 0), ElementAt(targets, 0))
          [] OTHER -> applyGeneralGate(state, operation)

\* every path writing into the buffer of the state it was given
ResultBuffer_Input(path) == "input"

\* the buffer a path writes the amplitudes into: a new Float64Array
\* (single, two), a copy of the input's buffer (cnot), none (general)
ResultBuffer(path) ==
    CASE path = "single" -> "new"
      [] path = "two" -> "new"
      [] path = "cnot" -> "copy"
      [] OTHER -> "none"

\* the state object passed to applyGate, as the call leaves it
applyGateInput(state, operation) ==
    IF ResultBuffer(Dispatch(operation)) = "input"
    THEN [state EXCEPT !.vector = applyGate(state, operation).vector]
    ELSE state

RECURSIVE SumProb1_Bit0(_, _, _, _)
\* the sum taken over the indices whose bit is 0
SumProb1_Bit0(probabilities, qubit, i, dim) ==
    IF i >= dim THEN Zero
    ELSE LET rest == SumProb1_Bit0(probabilities, qubit, i + 1, dim)
         IN  IF Bit(i, qubit) = 0 THEN Add(Read(probabilities, i), rest) ELSE rest

RECURSIVE SumProb1(_, _, _, _)
\* the loop that adds the probabilities of the indices whose bit is 1
SumProb1(probabilities, qubit, i, dim) ==
    IF i >= dim THEN Zero
    ELSE LET rest == SumProb1(probabilities, qubit, i + 1, dim)
         IN  IF Bit(i, qubit) = 1 THEN Add(Read(probabilities, i), rest) ELSE rest

RECURSIVE RetainedMass(_, _, _, _, _)
\* normalizationFactor before the square root
RetainedMass(vector, qubit, outcome, i, dim) ==
    IF i >= dim THEN Zero
    ELSE LET rest == RetainedMass(vector, qubit, outcome, i + 1, dim)
             real == Read(vector, i * 2)
             imag == Read(vector, i * 2 + 1)
         IN  IF Bit(i, qubit) = outcome
             THEN Add(Add(Mul(real, real), Mul(imag, imag)), rest)
             ELSE rest

\* the probabilities measure works from: the cache when the state has one
MeasureProbabilities(state) ==
    IF state.probabilities = NoProbabilities
    THEN calculateProbabilities(state)
    ELSE state.probabilities

MeasureOutcome(state, qubit, random) ==
    LET prob1 == SumProb1(MeasureProbabilities(state), qubit, 0, Pow2(state.qubits))
    IN  IF Less(random, prob1) THEN 1 ELSE 0

\* measure(state, qubit) with Math.random() returning random.  given is the
\* state object passed in, as the call leaves it (the cache is stored on it).
measure(state, qubit, random) ==
    LET dim == Pow2(state.qubits)
        outcome == MeasureOutcome(state, qubit, random)
        newVector == [idx \in 0..(dim * 2 - 1) |->
                         IF Bit(idx \div 2, qubit) = outcome
                         THEN Read(state.vector, idx) ELSE Zero]
        normalizationFactor ==
            Sqrt(RetainedMass(state.vector, qubit, outcome, 0, dim))
    IN  [given |-> [state EXCEPT !.probabilities = MeasureProbabilities(state)],
         state |-> [qubits |-> state.qubits,
                    vector |-> [idx \in 0..(dim * 2 - 1) |->
                                   Div(newVector[idx], normalizationFactor)],
                    probabilities |-> NoProbabilities],
         measured |-> (outcome = 1)]

\* the normalisation factor of measure lies in the number domain of the model
MeasureInDomain(state, qubit, random) ==
    LET mass == RetainedMass(state.vector, qubit,
                             MeasureOutcome(state, qubit, random), 0, Pow2(state.qubits))
    IN  HasSqrt(mass) /\ (Sign(mass) = 0 \/ Invertible(Sqrt(mass)))

(***************************************************************************)
(* sampleMeasurements.  A bit-string is the sequence of its digits; a      *)
(* frequency is the exact quotient count / shots.                          *)
(***************************************************************************)
RECURSIVE GCD(_, _)
GCD(m, n) == IF n = 0 THEN m ELSE GCD(n, m % n)

\* n / d as a reduced fraction
Quotient(n, d) == [num |-> n \div GCD(n, d), den |-> d \div GCD(n, d)]

RECURSIVE Binary(_)
\* outcome.toString(2)
Binary(n) == IF n < 2 THEN <<n>> ELSE Append(Binary(n \div 2), n % 2)

RECURSIVE padStart(_, _)
padStart(digits, length) ==
    IF Len(digits) >= length THEN digits ELSE padStart(<<0>> \o digits, length)

RECURSIVE Cumulative(_, _)
\* cumulativeProbs[i]
Cumulative(probabilities, i) ==
    IF i = 0 THEN Read(probabilities, 0)
    ELSE Add(Cumulative(probabilities, i - 1), Read(probabilities, i))

cumulativeProbs(probabilities, dim) ==
    [i \in 0..(dim - 1) |-> Cumulative(probabilities, i)]

RECURSIVE BinarySearch_FirstHit(_, _, _, _, _)
\* the search stopping at the first index found, without going on to the left
BinarySearch_FirstHit(cumulative, random, low, high, outcome) ==
    IF low > high THEN outcome
    ELSE LET mid == (low + high) \div 2
         IN  IF Less(random, cumulative[mid])
             THEN mid
             ELSE BinarySearch_FirstHit(cumulative, random, mid + 1, high, outcome)

RECURSIVE BinarySearch(_, _, _, _, _)
\* the while loop of one shot
BinarySearch(cumulative, random, low, high, outcome) ==
    IF low > high THEN outcome
    ELSE LET mid == (low + high) \div 2
         IN  IF Less(random, cumulative[mid])
             THEN BinarySearch(cumulative, random, low, mid - 1, mid)
             ELSE BinarySearch(cumulative, random, mid + 1, high, outcome)

SampleOutcome(state, random) ==
    LET dim == Pow2(state.qubits)
    IN  BinarySearch(cumulativeProbs(calculateProbabilities(state), dim),
                     random, 0, dim - 1, 0)

RECURSIVE SampleLoop_Overwrite(_, _, _, _)
\* the shot loop storing 1 for a bit-string seen again instead of adding 1
SampleLoop_Overwrite(results, state, randoms, shot) ==
    IF shot > Len(randoms) THEN results
    ELSE LET outcome == SampleOutcome(state, randoms[shot])
             bitString == padStart(Binary(outcome), state.qubits)
             next == IF bitString \in DOMAIN results
                     THEN [results EXCEPT ![bitString].frequency = 1]
                     ELSE results @@ (bitString :>
                              [state |-> bitString,
                               probability |-> calculateProbabilities(state)[outcome],
                               frequency |-> 1])
         IN  SampleLoop_Overwrite(next, state, randoms, shot + 1)

RECURSIVE SampleLoop(_, _, _, _)
\* the shot loop: results maps a bit-string to its record, frequency
\* holding the occurrence count
SampleLoop(results, state, randoms, shot) ==
    IF shot > Len(randoms) THEN results
    ELSE LET outcome == SampleOutcome(state, randoms[shot])
             bitString == padStart(Binary(outcome), state.qubits)
             next == IF bitString \in DOMAIN results
                     THEN [results EXCEPT ![bitString].frequency = @ + 1]
                     ELSE results @@ (bitString :>
                              [state |-> bitString,
                               probability |-> calculateProbabilities(state)[outcome],
                               frequency |-> 1])
         IN  SampleLoop(next, state, randoms, shot + 1)

NoResults == [key \in {} |-> 0]

\* sampleMeasurements(state, shots), shots = Len(randoms), the draws of
\* Math.random() being randoms in order
sampleMeasurements(state, randoms) ==
    LET counted == SampleLoop(NoResults, state, randoms, 1)
        shots == Len(randoms)
    IN  [key \in DOMAIN counted |->
            [counted[key] EXCEPT !.frequency = Quotient(@, shots)]]

(***************************************************************************)
(* Inputs of the model: states, operations and random draws.               *)
(***************************************************************************)
Qubits(n) == 0..(n - 1)

\* a state from its amplitudes, amps[i] the amplitude of basis index i
StateOf(n, amps) ==
    [qubits |-> n,
     vector |-> [idx \in 0..(Pow2(n) * 2 - 1) |->
                    IF idx % 2 = 0 THEN amps[idx \div 2].real ELSE amps[idx \div 2].imag],
     probabilities |-> NoProbabilities]

BasisState(n, k) == StateOf(n, [i \in 0..(Pow2(n) - 1) |-> IF i = k THEN C1r ELSE C0])

\* (|0...0> + |1...1>) / sqrt 2: the Bell state for n = 2
BellState(n) ==
    StateOf(n, [i \in 0..(Pow2(n) - 1) |->
                   IF i = 0 \/ i = Pow2(n) - 1 THEN create(InvSqrt2, Zero) ELSE C0])

\* (|0> + i|1>) / sqrt 2 on qubit 0, the other qubits 0
PhaseState(n) ==
    StateOf(n, [i \in 0..(Pow2(n) - 1) |->
                   IF i = 0 THEN create(InvSqrt2, Zero)
                   ELSE IF i = 1 THEN create(Zero, InvSqrt2) ELSE C0])

\* amplitudes 1/2, -1/2, 1/sqrt 2 on the indices 0, 1, 2 (n >= 2)
UnevenState(n) ==
    StateOf(n, [i \in 0..(Pow2(n) - 1) |->
                   IF i = 0 THEN create(Half, Zero)
                   ELSE IF i = 1 THEN create(Neg(Half), Zero)
                   ELSE IF i = 2 THEN create(Zero, InvSqrt2) ELSE C0])

StartStates(n) ==
    {BasisState(n, k) : k \in 0..(Pow2(n) - 1)}
        \cup {BellState(n), PhaseState(n)}
        \cup (IF n >= 2 THEN {UnevenState(n)} ELSE {})

Operation(gate, targets, controls) ==
    [gate |-> gate, targets |-> targets, controls |-> controls]

\* the lists of one, two or three distinct qubits
Lists1(n) == {<<a>> : a \in Qubits(n)}
Lists2(n) == {<<a, b>> : a \in Qubits(n), b \in Qubits(n)} \ {<<a, a>> : a \in Qubits(n)}
Lists3(n) ==
    {l \in {<<a, b, c>> : a \in Qubits(n), b \in Qubits(n), c \in Qubits(n)} :
        l[1] # l[2] /\ l[1] # l[3] /\ l[2] # l[3]}

\* operations on n qubits with distinct in-range indices: every gate on one
\* target and on two targets, with no control or one control, and the
\* three-qubit forms (three targets, or two controls on one target)
Operations(n) ==
    {Operation(g, t, << >>) : g \in standardGates, t \in Lists1(n) \cup Lists2(n)}
        \cup {Operation(g, <<l[2]>>, <<l[1]>>) : g \in standardGates, l \in Lists2(n)}
        \cup {Operation(toffoli, l, << >>) : l \in Lists3(n)}
        \cup {Operation(g, <<l[3]>>, <<l[1], l[2]>>) :
                  g \in {toffoli, pauliX}, l \in {k \in Lists3(n) : k[1] < k[2]}}

\* the values Math.random() takes in the model, all in [0, 1)
RandomDraws ==
    {Zero, Num(1, 0, 2), Half, Num(0, 1, 1), Num(7, 0, 3)}

RECURSIVE SeqsUpTo(_, _)
\* the sequences over S of length at most n
SeqsUpTo(S, n) ==
    IF n = 0 THEN {<< >>}
    ELSE LET shorter == SeqsUpTo(S, n - 1)
         IN  shorter \cup {Append(q, x) : q \in shorter, x \in S}

(***************************************************************************)
(* An engine session: a caller holds a state and calls applyGate, measure  *)
(* and sampleMeasurements on it, keeping each returned state.              *)
(***************************************************************************)
VARIABLES
    state,      \* the state the caller holds
    given,      \* the state object passed to the last call, as the call left it
    call,       \* the last call: its kind and arguments
    measured,   \* the outcome the last measure returned
    results,    \* the map the last sampleMeasurements returned
    warned,     \* the last call wrote a console warning
    thrown,     \* the error the last call raised, "none" when it returned
    calls,      \* the number of calls made
    circuit,    \* runCircuit: the circuit it was called with
    shots,      \* runCircuit: the shot count it was called with
    pc,         \* runCircuit: where the call stands
    position,   \* runCircuit: the place in the list the current loop is at
    classical,  \* runCircuit: the classical bits of single-shot mode
    returned,   \* runCircuit: the result record returned
    previous,   \* the call before the last, with the state passed to it
    runs,       \* concurrent executions: the locals of each runCircuit call
    slots,      \* concurrent executions: the state each call works on
    ui,         \* the application: its atoms and the run handler's position
    text        \* the QASM service: the code generated and the circuit parsed

sessionVars == <<given, call, measured, results, warned, calls>>
runVars == <<circuit, shots, pc, position, classical, returned>>
frontVars == <<ui, text>>
extraVars == <<runs, slots, frontVars>>
vars == <<state, thrown, sessionVars, runVars, previous, extraVars>>

Circuit(numQubits, operations, measurements) ==
    [numQubits |-> numQubits, operations |-> operations, measurements |-> measurements]

NoCircuit == Circuit(0, << >>, << >>)
NoState == [qubits |-> 0, vector |-> << >>, probabilities |-> NoProbabilities]
NoResult == [finalState |-> NoState, measurements |-> << >>]

NoOperation == Operation(createGate("none", << >>, 0), << >>, << >>)

Call(kind, operation, qubit, randoms) ==
    [kind |-> kind, operation |-> operation, qubit |-> qubit, randoms |-> randoms]

\* no call before the last
NoPrevious == [call |-> Call("none", NoOperation, Undefined, << >>), given |-> NoState]

\* the application is not mounted and the QASM service not used
NoUi == [pc |-> "none"]

NoText == [pc |-> "none"]

FrontIdle ==
    /\ ui = NoUi
    /\ text = NoText

\* nothing runs beside the session or the run
ExtraIdle ==
    /\ runs = << >>
    /\ slots = << >>
    /\ FrontIdle

\* no session and no single run
CoreIdle ==
    /\ state = NoState
    /\ given = NoState
    /\ call = Call("none", NoOperation, Undefined, << >>)
    /\ measured = FALSE
    /\ results = NoResults
    /\ warned = FALSE
    /\ thrown = "none"
    /\ calls = 0
    /\ previous = NoPrevious
    /\ circuit = NoCircuit
    /\ shots = 0
    /\ pc = "idle"
    /\ position = 0
    /\ classical = << >>
    /\ returned = NoResult

Init ==
    /\ \E n \in QubitCounts : state \in StartStates(n)
    /\ given = state
    /\ call = Call("none", NoOperation, Undefined, << >>)
    /\ measured = FALSE
    /\ results = NoResults
    /\ warned = FALSE
    /\ thrown = "none"
    /\ calls = 0
    /\ previous = NoPrevious
    /\ ExtraIdle
    /\ circuit = NoCircuit
    /\ shots = 0
    /\ pc = "idle"
    /\ position = 0
    /\ classical = << >>
    /\ returned = NoResult

\* applyGate(state, operation) on the state held
ApplyOperation(operation) ==
    /\ state' = applyGate(state, operation)
    /\ call' = Call("applyGate", operation, Undefined, << >>)
    /\ warned' = (Dispatch(operation) = "general")
    /\ given' = applyGateInput(state, operation)
    /\ thrown' = "none"
    /\ calls' = calls + 1
    /\ UNCHANGED <<measured, results, runVars>>

\* applyGate on the state held, the operation drawn from a set
ApplyGateFrom(operations) ==
    /\ calls < MaxCalls
    /\ \E operation \in operations : ApplyOperation(operation)
    /\ UNCHANGED <<previous, extraVars>>

ApplyGate == ApplyGateFrom(Operations(state.qubits))

\* a caller samples last: sampleMeasurements ends the session
Measure ==
    /\ calls < MaxCalls
    /\ call.kind # "sampleMeasurements"
    /\ \E qubit \in Qubits(state.qubits), random \in RandomDraws :
          /\ MeasureInDomain(state, qubit, random)
          /\ LET m == measure(state, qubit, random)
             IN  /\ state' = m.state
                 /\ given' = m.given
                 /\ measured' = m.measured
          /\ call' = Call("measure", NoOperation, qubit, <<random>>)
    /\ warned' = FALSE
    /\ thrown' = "none"
    /\ calls' = calls + 1
    /\ UNCHANGED <<results, runVars>>
    /\ UNCHANGED <<previous, extraVars>>

SampleMeasurements ==
    /\ calls < MaxCalls
    /\ call.kind # "sampleMeasurements"
    /\ \E randoms \in SeqsUpTo(RandomDraws, MaxShots) :
          /\ results' = sampleMeasurements(state, randoms)
          /\ call' = Call("sampleMeasurements", NoOperation, Undefined, randoms)
    /\ given' = state
    /\ warned' = FALSE
    /\ thrown' = "none"
    /\ calls' = calls + 1
    /\ UNCHANGED <<state, measured, runVars>>
    /\ UNCHANGED <<previous, extraVars>>

\* a session of gate applications
Next == ApplyGate

Spec == Init /\ [][Next]_vars

\* a session of measurements
NextMeasure == Measure \/ SampleMeasurements

SpecMeasure == Init /\ [][NextMeasure]_vars

\* one operation for each path of applyGate
CacheOperations(n) ==
    {o \in Operations(n) :
        \/ o.gate = pauliX /\ o.targets = <<0>> /\ o.controls = << >>
        \/ o.gate = hadamard /\ o.targets = <<0, 1>>
        \/ o.gate = swap /\ o.targets = <<0, 1>>
        \/ o.gate = cnot /\ o.targets = <<1>> /\ o.controls = <<0>>}

ApplyCachedGate == ApplyGateFrom(CacheOperations(state.qubits))

\* the caller goes on with the state object it passed to measure
KeepState ==
    /\ call.kind = "measure"
    /\ state # given
    /\ state' = given
    /\ UNCHANGED <<thrown, sessionVars, runVars>>
    /\ UNCHANGED <<previous, extraVars>>

\* the two-target cnot naming qubit n of an n-qubit state: the amplitudes it
\* moves to an index past the buffer are dropped
DroppingOperations(n) == {Operation(cnot, <<0, n>>, << >>)}

ApplyDroppingGate == ApplyGateFrom(DroppingOperations(state.qubits))

\* a session in which a gate may drop amplitudes before a measurement
NextDegenerate == ApplyDroppingGate \/ Measure

SpecDegenerate == Init /\ [][NextDegenerate]_vars

\* the Hadamard on one target, and with a second target listed
HadamardOperations(n) ==
    {o \in Operations(n) : o.gate = hadamard /\ o.controls = << >>}

\* applyGate with a Hadamard, the caller keeping the call before
ApplyHadamard ==
    /\ calls < MaxCalls
    /\ \E operation \in HadamardOperations(state.qubits) : ApplyOperation(operation)
    /\ previous' = [call |-> call, given |-> given]
    /\ UNCHANGED extraVars

\* a session of Hadamard gates
NextHadamard == ApplyHadamard

\* sessions in which a state is measured and the state returned is
\* measured again on the same qubit, or sampled.  RoundedState has the
\* amplitudes (-2 + 3*sqrt 2)/8 at index 1 and ((1 + 2*sqrt 2) +
\* (1 + 4*sqrt 2)i)/8 at index 3: probabilities (11 - 6*sqrt 2)/32 and
\* (21 + 6*sqrt 2)/32, which sum to 1.
RoundedState ==
    StateOf(2, [i \in 0..3 |->
                   IF i = 1 THEN create(Num(-2, 3, 3), Zero)
                   ELSE IF i = 3 THEN create(Num(1, 2, 3), Num(1, 4, 3))
                   ELSE C0])

RepeatStates == StartStates(1) \cup StartStates(2) \cup {RoundedState}

\* draws of Math.random(): 1/4, 7/8 and 1 - 2^-27
RepeatDraws == {Num(1, 0, 2), Num(7, 0, 3), Num(134217727, 0, 27)}

\* no call before the last, and so no outcome
NoMeasured == [call |-> Call("none", NoOperation, Undefined, << >>),
               given |-> NoState, measured |-> FALSE]

InitRepeat ==
    /\ state \in RepeatStates
    /\ given = state
    /\ call = Call("none", NoOperation, Undefined, << >>)
    /\ measured = FALSE
    /\ results = NoResults
    /\ warned = FALSE
    /\ thrown = "none"
    /\ calls = 0
    /\ previous = NoMeasured
    /\ ExtraIdle
    /\ circuit = NoCircuit
    /\ shots = 0
    /\ pc = "idle"
    /\ position = 0
    /\ classical = << >>
    /\ returned = NoResult

\* measure on the state held, the caller keeping the call before and its
\* outcome
MeasureOn(qubits) ==
    /\ calls < MaxCalls
    /\ \E qubit \in qubits, random \in RepeatDraws :
          /\ MeasureInDomain(state, qubit, random)
          /\ \E m \in {measure(state, qubit, random)} :
                /\ state' = m.state
                /\ given' = m.given
                /\ measured' = m.measured
          /\ call' = Call("measure", NoOperation, qubit, <<random>>)
    /\ previous' = [call |-> call, given |-> given, measured |-> measured]
    /\ warned' = FALSE
    /\ thrown' = "none"
    /\ calls' = calls + 1
    /\ UNCHANGED <<results, runVars, extraVars>>

MeasureFirst ==
    /\ call.kind = "none"
    /\ MeasureOn(Qubits(state.qubits))

\* the state returned is measured again on the same qubit
MeasureAgain ==
    /\ call.kind = "measure"
    /\ MeasureOn({call.qubit})

\* sampleMeasurements on the state held ends the session
SampleState ==
    /\ calls < MaxCalls
    /\ call.kind # "sampleMeasurements"
    /\ \E randoms \in SeqsUpTo(RepeatDraws, MaxShots) :
          /\ results' = sampleMeasurements(state, randoms)
          /\ call' = Call("sampleMeasurements", NoOperation, Undefined, randoms)
    /\ given' = state
    /\ previous' = [call |-> call, given |-> given, measured |-> measured]
    /\ warned' = FALSE
    /\ thrown' = "none"
    /\ calls' = calls + 1
    /\ UNCHANGED <<state, measured, runVars, extraVars>>

NextRepeat ==
    \/ MeasureFirst
    \/ MeasureAgain
    \/ SampleState

SpecRepeat == InitRepeat /\ [][NextRepeat]_vars

\* sessions in which every gate of the catalog is looked up and applied
CatalogStates ==
    {BasisState(1, 0), PhaseState(1), BasisState(2, 1), BasisState(2, 2), BellState(2),
     UnevenState(2)}

\* the first g.qubits qubits as the targets
FirstTargets(count) == [j \in 1..count |-> j - 1]

CatalogOperations == {Operation(g, FirstTargets(g.qubits), << >>) : g \in standardGates}

InitCatalog ==
    /\ state \in CatalogStates
    /\ given = state
    /\ call = Call("none", NoOperation, Undefined, << >>)
    /\ measured = FALSE
    /\ results = NoResults
    /\ warned = FALSE
    /\ thrown = "none"
    /\ calls = 0
    /\ previous = NoPrevious
    /\ ExtraIdle
    /\ circuit = NoCircuit
    /\ shots = 0
    /\ pc = "idle"
    /\ position = 0
    /\ classical = << >>
    /\ returned = NoResult

ApplyCatalogGate == ApplyGateFrom(CatalogOperations)

NextCatalog == ApplyCatalogGate

SpecCatalog == InitCatalog /\ [][NextCatalog]_vars

\* sessions of two-qubit gates on two and three qubits
PairStates ==
    {BasisState(3, 6), UnevenState(3), BasisState(2, 1), UnevenState(2)}

PairOperations(n) ==
    {Operation(g, l, << >>) : g \in {cnot, swap}, l \in Lists2(n)}

InitPair ==
    /\ state \in PairStates
    /\ given = state
    /\ call = Call("none", NoOperation, Undefined, << >>)
    /\ measured = FALSE
    /\ results = NoResults
    /\ warned = FALSE
    /\ thrown = "none"
    /\ calls = 0
    /\ previous = NoPrevious
    /\ ExtraIdle
    /\ circuit = NoCircuit
    /\ shots = 0
    /\ pc = "idle"
    /\ position = 0
    /\ classical = << >>
    /\ returned = NoResult

\* applyGate with a two-qubit gate on two targets; the caller keeps the
\* call before
ApplyPairGate ==
    /\ calls < MaxCalls
    /\ \E operation \in PairOperations(state.qubits) : ApplyOperation(operation)
    /\ previous' = [call |-> call, given |-> given]
    /\ UNCHANGED extraVars

NextPair == ApplyPairGate

SpecPair == InitPair /\ [][NextPair]_vars

SpecHadamard == Init /\ [][NextHadamard]_vars

\* a session of gates and measurements in which states are measured again
NextCache == ApplyCachedGate \/ Measure \/ KeepState

SpecCache == Init /\ [][NextCache]_vars

(***************************************************************************)
(* CircuitSimulator.runCircuit, one step per loop iteration.               *)
(***************************************************************************)
\* the operations and the draws the circuits of the model are built from
\* operations that name qubit n of an n-qubit circuit, for n = 1
OutOfRangeOperations(n) ==
    IF n = 1
    THEN {Operation(hadamard, <<n>>, << >>),
          Operation(hadamard, <<0, n>>, << >>),
          Operation(cnot, <<0, n>>, << >>)}
    ELSE {}

RunOperations(n) ==
    {o \in Operations(n) :
        \/ o.gate = hadamard /\ Len(o.controls) = 0 /\ o.targets[1] = 0
        \/ o.gate = hadamard /\ Len(o.targets) = 2
        \/ o.gate = cnot /\ o.controls = <<0>>
        \/ o.gate = cnot /\ Len(o.targets) = 2}
        \cup OutOfRangeOperations(n)

\* the qubit counts of the circuits: those of the sessions, none, and one
\* below none
RunQubitCounts == QubitCounts \cup {0, -1}

RunDraws == {Num(1, 0, 2), Num(7, 0, 3)}

Assignment(qubit, classicalIndex) == [qubit |-> qubit, classical |-> classicalIndex]

\* the measurement lists: none, every qubit on its own classical bit, and
\* every qubit on the classical bits in reverse
MeasurementLists(n) ==
    {<< >>,
     [j \in 1..n |-> Assignment(j - 1, j - 1)],
     [j \in 1..n |-> Assignment(j - 1, n - j)]}

Circuits ==
    {Circuit(n, ops, ms) : n \in RunQubitCounts,
                           ops \in UNION {SeqsUpTo(RunOperations(m), MaxOps) : m \in RunQubitCounts},
                           ms \in UNION {MeasurementLists(m) : m \in RunQubitCounts}}

\* a circuit of the model: its operations and measurements fit its qubits
WellFormed(c) ==
    /\ c.operations \in SeqsUpTo(RunOperations(c.numQubits), MaxOps)
    /\ c.measurements \in MeasurementLists(c.numQubits)

InitRun ==
    /\ circuit \in {c \in Circuits : WellFormed(c)}
    /\ shots \in 0..MaxShots
    /\ pc = "start"
    /\ position = 0
    /\ classical = << >>
    /\ returned = NoResult
    /\ state = NoState
    /\ given = NoState
    /\ call = Call("none", NoOperation, Undefined, << >>)
    /\ measured = FALSE
    /\ results = NoResults
    /\ warned = FALSE
    /\ thrown = "none"
    /\ calls = 0
    /\ previous = NoPrevious
    /\ ExtraIdle

\* let state = this.stateEngine.createState(circuit.numQubits)
RunCreateState ==
    /\ pc = "start"
    /\ IF createStateThrows(circuit.numQubits)
       THEN /\ thrown' = "RangeError"
            /\ pc' = "thrown"
            /\ UNCHANGED <<state, position>>
       ELSE /\ state' = createState(circuit.numQubits)
            /\ pc' = "gates"
            /\ position' = 1
            /\ UNCHANGED thrown
    /\ call' = Call("createState", NoOperation, Undefined, << >>)
    /\ calls' = calls + 1
    /\ UNCHANGED <<given, measured, results, warned, circuit, shots, classical, returned>>
    /\ UNCHANGED <<previous, extraVars>>

\* the operation the for-of loop hands out at a position
NextOperation_First(c, at) == c.operations[1]

NextOperation(c, at) == c.operations[at]

\* one iteration of the loop over circuit.operations
RunApplyGate ==
    /\ pc = "gates"
    /\ position <= Len(circuit.operations)
    /\ state' = applyGate(state, NextOperation(circuit, position))
    /\ position' = position + 1
    /\ call' = Call("applyGate", NextOperation(circuit, position), Undefined, << >>)
    /\ calls' = calls + 1
    /\ UNCHANGED <<thrown, given, measured, results, warned, circuit, shots, pc,
                   classical, returned>>
    /\ UNCHANGED <<previous, extraVars>>

\* the branch runCircuit takes on the shot count
ModeOf_NoZero(n) == IF n = 1 THEN "single" ELSE "sample"

ModeOf(n) == IF n = 0 THEN "none" ELSE IF n = 1 THEN "single" ELSE "sample"

\* the loop is over: shots === 0 returns the state as it is
RunNoMeasurement ==
    /\ pc = "gates"
    /\ position > Len(circuit.operations)
    /\ ModeOf(shots) = "none"
    /\ returned' = [finalState |-> state, measurements |-> NoResults]
    /\ pc' = "done"
    /\ UNCHANGED <<state, thrown, sessionVars, circuit, shots, position, classical>>
    /\ UNCHANGED <<previous, extraVars>>

\* shots === 1: new Array(circuit.measurements.length).fill(0)
RunSingleShot ==
    /\ pc = "gates"
    /\ position > Len(circuit.operations)
    /\ ModeOf(shots) = "single"
    /\ classical' = [j \in 0..(Len(circuit.measurements) - 1) |-> 0]
    /\ position' = 1
    /\ pc' = "measure"
    /\ UNCHANGED <<state, thrown, sessionVars, circuit, shots, returned>>
    /\ UNCHANGED <<previous, extraVars>>

\* one iteration of the loop over circuit.measurements; an assignment past
\* the end of the array extends it
RunMeasure ==
    /\ pc = "measure"
    /\ position <= Len(circuit.measurements)
    /\ \E random \in RunDraws :
          LET qubit == circuit.measurements[position].qubit
              classicalIndex == circuit.measurements[position].classical
              m == measure(state, qubit, random)
              bit == IF m.measured THEN 1 ELSE 0
          IN  /\ MeasureInDomain(state, qubit, random)
              /\ state' = m.state
              /\ given' = m.given
              /\ measured' = m.measured
              /\ call' = Call("measure", NoOperation, qubit, <<random>>)
              /\ classical' = [j \in DOMAIN classical \cup {classicalIndex} |->
                                  IF j = classicalIndex THEN bit ELSE classical[j]]
    /\ position' = position + 1
    /\ calls' = calls + 1
    /\ UNCHANGED <<thrown, results, warned, circuit, shots, pc, returned>>
    /\ UNCHANGED <<previous, extraVars>>

RECURSIVE join_Reversed(_)
\* the digits in falling index order
join_Reversed(array) ==
    IF DOMAIN array = {} THEN << >>
    ELSE LET first == CHOOSE j \in DOMAIN array : \A k \in DOMAIN array : j <= k
         IN  Append(join_Reversed([j \in DOMAIN array \ {first} |-> array[j]]), array[first])

RECURSIVE join(_)
\* classical.join(''): the digits in index order, nothing for a hole
join(array) ==
    IF DOMAIN array = {} THEN << >>
    ELSE LET last == CHOOSE j \in DOMAIN array : \A k \in DOMAIN array : k <= j
         IN  Append(join([j \in DOMAIN array \ {last} |-> array[j]]), array[last])

\* the measurements are over: the single entry of the result map
RunSingleShotResult ==
    /\ pc = "measure"
    /\ position > Len(circuit.measurements)
    /\ LET bitString == join(classical)
       IN  returned' = [finalState |-> state,
                        measurements |-> (bitString :>
                            [state |-> bitString,
                             probability |-> One,
                             frequency |-> Quotient(1, 1)])]
    /\ pc' = "done"
    /\ UNCHANGED <<state, thrown, sessionVars, circuit, shots, position, classical>>
    /\ UNCHANGED <<previous, extraVars>>

\* any other shot count: sampleMeasurements on the final state
RunSample ==
    /\ pc = "gates"
    /\ position > Len(circuit.operations)
    /\ ModeOf(shots) = "sample"
    /\ \E randoms \in SeqsUpTo(RunDraws, shots) :
          /\ Len(randoms) = shots
          /\ returned' = [finalState |-> state,
                           measurements |-> sampleMeasurements(state, randoms)]
          /\ call' = Call("sampleMeasurements", NoOperation, Undefined, randoms)
    /\ calls' = calls + 1
    /\ pc' = "done"
    /\ UNCHANGED <<state, thrown, given, measured, results, warned, circuit, shots,
                   position, classical>>
    /\ UNCHANGED <<previous, extraVars>>

NextRun ==
    \/ RunCreateState
    \/ RunApplyGate
    \/ RunNoMeasurement
    \/ RunSingleShot
    \/ RunMeasure
    \/ RunSingleShotResult
    \/ RunSample

SpecRun == InitRun /\ [][NextRun]_vars

(***************************************************************************)
(* Two runCircuit executions side by side, one step per engine call of the *)
(* gate loop; the measurement branch of a run is one step.                 *)
(***************************************************************************)
Executions == {1, 2}

\* the shot counts of concurrent calls: one per measurement mode
ConcurrentShots == {0, 1, 2}

RECURSIVE FoldGates(_, _)
\* the left-to-right fold of applyGate over a list of operations
FoldGates(st, operations) ==
    IF operations = << >> THEN st
    ELSE CHOOSE folded \in {FoldGates(next, Tail(operations)) :
                                next \in {applyGate(st, Head(operations))}} : TRUE

RECURSIVE MeasureEach(_, _, _, _, _)
\* the loop over circuit.measurements from assignment j on, the draws given
MeasureEach(st, bits, measurements, draws, j) ==
    IF j > Len(measurements) THEN [state |-> st, classical |-> bits]
    ELSE LET qubit == measurements[j].qubit
             classicalIndex == measurements[j].classical
             Bits(m) == [k \in DOMAIN bits \cup {classicalIndex} |->
                            IF k = classicalIndex
                            THEN (IF m.measured THEN 1 ELSE 0)
                            ELSE bits[k]]
         IN  CHOOSE rest \in {MeasureEach(m.state, Bits(m), measurements, draws, j + 1) :
                                  m \in {measure(st, qubit, draws[j])}} : TRUE

\* what runCircuit does after the gate loop, the draws given
Finish(st, c, n, draws) ==
    CASE ModeOf(n) = "none" -> [finalState |-> st, measurements |-> NoResults]
      [] ModeOf(n) = "single" ->
            LET done == MeasureEach(st, [k \in 0..(Len(c.measurements) - 1) |-> 0],
                                    c.measurements, draws, 1)
                bitString == join(done.classical)
            IN  [finalState |-> done.state,
                 measurements |-> (bitString :>
                     [state |-> bitString,
                      probability |-> One,
                      frequency |-> Quotient(1, 1)])]
      [] OTHER -> [finalState |-> st, measurements |-> sampleMeasurements(st, draws)]

\* the draws a run takes: one per assignment, or one per shot
DrawsNeeded(c, n) ==
    CASE ModeOf(n) = "none" -> 0
      [] ModeOf(n) = "single" -> Len(c.measurements)
      [] OTHER -> n

RECURSIVE DrawsInDomain(_, _, _, _)
\* every measurement of the loop has its normalisation factor in the numbers
\* of the model
DrawsInDomain(st, measurements, draws, j) ==
    IF j > Len(measurements) THEN TRUE
    ELSE /\ MeasureInDomain(st, measurements[j].qubit, draws[j])
         /\ \A m \in {measure(st, measurements[j].qubit, draws[j])} :
                DrawsInDomain(m.state, measurements, draws, j + 1)

\* the circuits the two executions run
ConcurrentCircuits ==
    {Circuit(2, <<Operation(hadamard, <<0, 1>>, << >>), Operation(cnot, <<0, 1>>, << >>)>>,
             <<Assignment(0, 0), Assignment(1, 1)>>),
     Circuit(2, <<Operation(hadamard, <<1, 0>>, << >>)>>,
             <<Assignment(0, 1), Assignment(1, 0)>>),
     Circuit(1, <<Operation(hadamard, <<0>>, << >>)>>, <<Assignment(0, 0)>>)}

Execution(c, n, draws) ==
    [circuit |-> c, shots |-> n, draws |-> draws,
     pc |-> "start", position |-> 0, returned |-> NoResult]

\* every execution shares one state
StateHome_Shared(p) == 1

\* where an execution keeps its state: let state, a local of the call
StateHome(p) == p

\* the calls of the model: a circuit, a shot count and the draws the call
\* will take
ExecutionsOf(circuits) ==
    {e \in {Execution(c, n, draws) :
                c \in circuits, n \in ConcurrentShots,
                draws \in SeqsUpTo(RunDraws, 2)} :
        /\ Len(e.draws) = DrawsNeeded(e.circuit, e.shots)
        /\ ModeOf(e.shots) = "single" =>
               DrawsInDomain(FoldGates(createState(e.circuit.numQubits),
                                       e.circuit.operations),
                             e.circuit.measurements, e.draws, 1)}

InitConcurrent ==
    /\ CoreIdle
    /\ runs \in [Executions -> ExecutionsOf(ConcurrentCircuits)]
    /\ slots = [h \in Executions |-> NoState]
    /\ FrontIdle

\* let state = this.stateEngine.createState(circuit.numQubits)
ExecutionCreateState(p) ==
    /\ runs[p].pc = "start"
    /\ slots' = [slots EXCEPT ![StateHome(p)] = createState(runs[p].circuit.numQubits)]
    /\ runs' = [runs EXCEPT ![p].pc = "gates", ![p].position = 1]
    /\ UNCHANGED <<state, thrown, sessionVars, runVars, previous, frontVars>>

\* one iteration of the loop over circuit.operations
ExecutionApplyGate(p) ==
    /\ runs[p].pc = "gates"
    /\ runs[p].position <= Len(runs[p].circuit.operations)
    /\ slots' = [slots EXCEPT ![StateHome(p)] =
                    applyGate(slots[StateHome(p)],
                              NextOperation(runs[p].circuit, runs[p].position))]
    /\ runs' = [runs EXCEPT ![p].position = runs[p].position + 1]
    /\ UNCHANGED <<state, thrown, sessionVars, runVars, previous, frontVars>>

\* the measurement branch and the return
ExecutionFinish(p) ==
    /\ runs[p].pc = "gates"
    /\ runs[p].position > Len(runs[p].circuit.operations)
    /\ \E result \in {Finish(slots[StateHome(p)], runs[p].circuit, runs[p].shots,
                                runs[p].draws)} :
          /\ slots' = [slots EXCEPT ![StateHome(p)] = result.finalState]
          /\ runs' = [runs EXCEPT ![p].pc = "done", ![p].returned = result]
    /\ UNCHANGED <<state, thrown, sessionVars, runVars, previous, frontVars>>

\* the event loop runs one step of either execution
NextConcurrent ==
    \/ \E p \in Executions : ExecutionCreateState(p)
    \/ \E p \in Executions : ExecutionApplyGate(p)
    \/ \E p \in Executions : ExecutionFinish(p)

SpecConcurrent == InitConcurrent /\ [][NextConcurrent]_vars

(***************************************************************************)
(* The application's run handler (App.runSimulation), the service and the  *)
(* worker behind it.  The handler passes 1024 shots; every count above 1   *)
(* takes the sampling branch of runCircuit, and the model's worker draws   *)
(* UiShots samples there.                                                  *)
(***************************************************************************)
UiShots == 2

\* the circuit the mount effect stores
initialCircuit ==
    Circuit(3, <<Operation(hadamard, <<0>>, << >>),
                 Operation(cnot, <<1>>, <<0>>),
                 Operation(pauliX, <<2>>, << >>)>>,
            <<Assignment(0, 0), Assignment(1, 1), Assignment(2, 2)>>)

\* the circuits the editor may store: the mounted one, one that leaves a
\* superposition, and one whose qubit count createState rejects
UiCircuits ==
    {initialCircuit,
     Circuit(2, <<Operation(hadamard, <<0, 1>>, << >>)>>, << >>),
     Circuit(-1, << >>, << >>)}

\* error === null
NoError == [prefix |-> "", message |-> ""]

\* what the worker's runCircuit answers: the result, or the error
\* createState raised, passed on by the worker and by the service
WorkerRunCircuit(c, n, draws) ==
    IF createStateThrows(c.numQubits)
    THEN [rejected |-> TRUE, message |-> "Invalid typed array length",
          result |-> NoResult]
    ELSE [rejected |-> FALSE, message |-> "",
          result |-> Finish(FoldGates(createState(c.numQubits), c.operations),
                            c, n, draws)]

\* the catch block clears the stored result as well
Caught_ClearsResult(u, message) ==
    [u EXCEPT !.error = [prefix |-> "Simulation error: ", message |-> message],
              !.simulationResult = NoResult]

\* catch (err) { setError(`Simulation error: ${...}`) }
Caught(u, message) ==
    [u EXCEPT !.error = [prefix |-> "Simulation error: ", message |-> message]]

\* setSimulationResult(result)
Stored(u, result) == [u EXCEPT !.simulationResult = result]

\* the application after the mount effect
InitUi ==
    /\ CoreIdle
    /\ runs = << >>
    /\ slots = << >>
    /\ text = NoText
    /\ ui = [pc |-> "idle", circuit |-> initialCircuit,
             simulationResult |-> NoResult, error |-> NoError,
             isSimulating |-> FALSE, sent |-> NoCircuit, stored |-> NoResult,
             settled |-> "none", delivered |-> NoResult, message |-> "",
             started |-> 0]

\* setCircuit, from the canvas or the palette
SetCircuit ==
    /\ ui.pc \in {"idle", "awaiting"}
    /\ \E c \in UiCircuits \ {ui.circuit} : ui' = [ui EXCEPT !.circuit = c]
    /\ UNCHANGED <<state, thrown, sessionVars, runVars, previous, runs, slots, text>>

\* runSimulation up to its await; the button is disabled while isSimulating
RunSimulationStart ==
    /\ ui.pc = "idle"
    /\ ~ui.isSimulating
    /\ ui.started < MaxCalls
    /\ ui' = [ui EXCEPT !.pc = "awaiting", !.error = NoError,
                        !.isSimulating = TRUE, !.sent = ui.circuit,
                        !.stored = ui.simulationResult,
                        !.started = ui.started + 1]
    /\ UNCHANGED <<state, thrown, sessionVars, runVars, previous, runs, slots, text>>

\* the worker answers and runSimulation runs to its end
RunSimulationSettle ==
    /\ ui.pc = "awaiting"
    /\ \E draws \in SeqsUpTo(RunDraws, UiShots) :
          /\ Len(draws) = UiShots
          /\ \E answer \in {WorkerRunCircuit(ui.sent, UiShots, draws)} :
                ui' = [(IF answer.rejected
                        THEN Caught(ui, answer.message)
                        ELSE Stored(ui, answer.result))
                          EXCEPT !.pc = "idle", !.isSimulating = FALSE,
                                 !.settled = IF answer.rejected THEN "rejected"
                                             ELSE "resolved",
                                 !.delivered = answer.result,
                                 !.message = answer.message]
    /\ UNCHANGED <<state, thrown, sessionVars, runVars, previous, runs, slots, text>>

NextUi ==
    \/ SetCircuit
    \/ RunSimulationStart
    \/ RunSimulationSettle

SpecUi == InitUi /\ [][NextUi]_vars

(***************************************************************************)
(* The QASM service (QASMParser).  A text is the sequence of its non-blank *)
(* lines; a line is its first word, the version it names and the numbers   *)
(* between its brackets, in order.  No catalog name starts with OPENQASM,  *)
(* include, qreg or creg, and "measure" starts with no catalog name, so    *)
(* the parser's prefix tests decide by the first word.  Catalog gates      *)
(* carry no parameters.                                                    *)
(***************************************************************************)
Line(word, version, indices) == [word |-> word, version |-> version, indices |-> indices]

\* String.prototype.toLowerCase on the words of the model
toLowerCase(word) ==
    CASE word = "pauliX" -> "paulix"
      [] word = "pauliY" -> "pauliy"
      [] word = "pauliZ" -> "pauliz"
      [] word = "sGate" -> "sgate"
      [] word = "tGate" -> "tgate"
      [] OTHER -> word

RECURSIVE MaxClassical(_, _)
\* Math.max(...measurements.map(m => m.classical))
MaxClassical(measurements, j) ==
    IF j = Len(measurements) THEN measurements[j].classical
    ELSE MaxOf(measurements[j].classical, MaxClassical(measurements, j + 1))

\* the line of an operation: the name, then the controls, then the targets
GateLine(op) == Line(toLowerCase(op.gate.name), "", op.controls \o op.targets)

MeasureLine(m) == Line("measure", "", <<m.qubit, m.classical>>)

generateQASM(c) ==
    <<Line("OPENQASM", "2.0", << >>), Line("include", "", << >>),
      Line("qreg", "", <<c.numQubits>>)>>
        \o (IF Len(c.measurements) > 0
            THEN <<Line("creg", "", <<MaxClassical(c.measurements, 1) + 1>>)>>
            ELSE << >>)
        \o [i \in 1..Len(c.operations) |-> GateLine(c.operations[i])]
        \o [j \in 1..Len(c.measurements) |-> MeasureLine(c.measurements[j])]

\* the line starts with a key of the catalog or with its lower case
isGateApplication(line) ==
    \E g \in standardGates : line.word \in {g.name, toLowerCase(g.name)}

InRange(indices, numQubits) ==
    SelectSeq(indices, LAMBDA idx : idx >= 0 /\ idx < numQubits)

\* the operation of a gate line, null (NoOperation) for an unknown gate
parseGateApplication(line, numQubits) ==
    LET gateName == toLowerCase(line.word)
        found == {g \in standardGates : toLowerCase(g.name) = gateName}
        qubitIndices == InRange(line.indices, numQubits)
    IN  IF found = {} THEN NoOperation
        ELSE LET gate == CHOOSE g \in found : TRUE
             IN  IF gateName \in {"cx", "cnot"}
                 THEN IF Len(qubitIndices) >= 2
                      THEN Operation(gate, <<qubitIndices[2]>>, <<qubitIndices[1]>>)
                      ELSE Operation(gate, << >>, << >>)
                 ELSE IF gateName \in {"ccx", "toffoli"}
                 THEN IF Len(qubitIndices) >= 3
                      THEN Operation(gate, <<qubitIndices[3]>>,
                                     <<qubitIndices[1], qubitIndices[2]>>)
                      ELSE Operation(gate, << >>, << >>)
                 ELSE Operation(gate, qubitIndices, << >>)

\* the version line names another version
parseQASMThrows(lines) ==
    \E i \in 1..Len(lines) : lines[i].word = "OPENQASM" /\ lines[i].version # "2.0"

RECURSIVE ParseLines(_, _)
\* the loop over the lines, c the circuit built so far
ParseLines(lines, c) ==
    IF lines = << >> THEN c
    ELSE LET line == Head(lines)
             next ==
                 IF line.word \in {"OPENQASM", "include", "creg"} THEN c
                 ELSE IF line.word = "qreg"
                 THEN [c EXCEPT !.numQubits = line.indices[1]]
                 ELSE IF isGateApplication(line)
                 THEN LET operation == parseGateApplication(line, c.numQubits)
                      IN  IF operation = NoOperation THEN c
                          ELSE [c EXCEPT !.operations = Append(@, operation)]
                 ELSE IF line.word = "measure"
                 THEN [c EXCEPT !.measurements =
                                   Append(@, Assignment(line.indices[1], line.indices[2]))]
                 ELSE c
         IN  ParseLines(Tail(lines), next)

parseQASM(lines) == ParseLines(lines, Circuit(0, << >>, << >>))

\* the qubit count of the circuits exported
QasmQubits == 3

\* one operation of each catalog gate, in range, and both forms of the
\* controlled gates
QasmOperations ==
    {Operation(identity, <<0>>, << >>), Operation(pauliX, <<1>>, << >>),
     Operation(pauliY, <<2>>, << >>), Operation(pauliZ, <<0>>, << >>),
     Operation(hadamard, <<1>>, << >>), Operation(sGate, <<2>>, << >>),
     Operation(tGate, <<0>>, << >>), Operation(swap, <<2, 0>>, << >>),
     Operation(cnot, <<1>>, <<0>>), Operation(cnot, <<0, 1>>, << >>),
     Operation(toffoli, <<2>>, <<0, 1>>), Operation(toffoli, <<0, 1, 2>>, << >>)}

QasmMeasurements ==
    {<< >>, <<Assignment(0, 0)>>, <<Assignment(0, 1), Assignment(2, 0)>>}

QasmCircuits ==
    {Circuit(QasmQubits, operations, measurements) :
        operations \in SeqsUpTo(QasmOperations, MaxOps),
        measurements \in QasmMeasurements}

InitQasm ==
    /\ CoreIdle
    /\ runs = << >>
    /\ slots = << >>
    /\ ui = NoUi
    /\ \E c \in QasmCircuits :
          text = [pc |-> "circuit", circuit |-> c, qasm |-> << >>, parsed |-> NoCircuit]

GenerateQASM ==
    /\ text.pc = "circuit"
    /\ text' = [text EXCEPT !.pc = "generated", !.qasm = generateQASM(text.circuit)]
    /\ UNCHANGED <<state, thrown, sessionVars, runVars, previous, runs, slots, ui>>

ParseQASM ==
    /\ text.pc = "generated"
    /\ ~parseQASMThrows(text.qasm)
    /\ text' = [text EXCEPT !.pc = "parsed", !.parsed = parseQASM(text.qasm)]
    /\ UNCHANGED <<state, thrown, sessionVars, runVars, previous, runs, slots, ui>>

NextQasm ==
    \/ GenerateQASM
    \/ ParseQASM

SpecQasm == InitQasm /\ [][NextQasm]_vars

(***************************************************************************)
(* Grover's algorithm (GroverAlgorithm.createCircuit) and its run.  The    *)
(* marked item is the sequence of its characters, 0 or 1.                  *)
(***************************************************************************)
\* the operations pushed by a loop over the indices of a list, in order
Each(indices, Op(_)) == [j \in 1..Len(indices) |-> Op(indices[j])]

Ascending(n) == [j \in 1..n |-> j - 1]

Descending(n) == [j \in 1..n |-> n - j]

\* the indices at which the marked item reads '0', in rising order
flipMask(markedItem) ==
    SelectSeq(Ascending(Len(markedItem)), LAMBDA i : markedItem[i + 1] = 0)

OnTarget(gate, q) == Operation(gate, <<q>>, << >>)

\* the "multi-controlled Z": a CNOT from every search qubit to the ancilla,
\* Z on the ancilla, and the CNOTs again in falling order
ControlledZ(numQubits) ==
    Each(Ascending(numQubits), LAMBDA i : Operation(cnot, <<numQubits>>, <<i>>))
        \o <<OnTarget(pauliZ, numQubits)>>
        \o Each(Descending(numQubits), LAMBDA i : Operation(cnot, <<numQubits>>, <<i>>))

applyOracle(numQubits, markedItem) ==
    Each(flipMask(markedItem), LAMBDA i : OnTarget(pauliX, i))
        \o ControlledZ(numQubits)
        \o Each(flipMask(markedItem), LAMBDA i : OnTarget(pauliX, i))

applyDiffusion(numQubits) ==
    Each(Ascending(numQubits), LAMBDA i : OnTarget(hadamard, i))
        \o Each(Ascending(numQubits), LAMBDA i : OnTarget(pauliX, i))
        \o ControlledZ(numQubits)
        \o Each(Ascending(numQubits), LAMBDA i : OnTarget(pauliX, i))
        \o Each(Ascending(numQubits), LAMBDA i : OnTarget(hadamard, i))

RECURSIVE Iterations(_, _, _)
Iterations(numQubits, markedItem, iterations) ==
    IF iterations <= 0 THEN << >>
    ELSE applyOracle(numQubits, markedItem) \o applyDiffusion(numQubits)
             \o Iterations(numQubits, markedItem, iterations - 1)

createCircuitThrows(numQubits, markedItem) ==
    numQubits <= 0 \/ Len(markedItem) # numQubits

createCircuit(numQubits, markedItem, iterations) ==
    Circuit(numQubits + 1,
            Each(Ascending(numQubits), LAMBDA i : OnTarget(hadamard, i))
                \o <<OnTarget(pauliX, numQubits), OnTarget(hadamard, numQubits)>>
                \o Iterations(numQubits, markedItem, iterations),
            Each(Ascending(numQubits), LAMBDA i : Assignment(i, i)))

\* Math.floor(Math.PI / 4 * Math.sqrt(2^numQubits)): 1.11, 1.57, 2.22
calculateOptimalIterations(numQubits) ==
    CASE numQubits = 1 -> 1
      [] numQubits = 2 -> 1
      [] numQubits = 3 -> 2

\* the searches of the model: one or two search qubits, every marked item,
\* no iteration or the optimal one
GroverQubits == {1, 2}

MarkedItems(n) == {m \in SeqsUpTo({0, 1}, n) : Len(m) = n}

GroverIterations == {0, 1}

InitGrover ==
    /\ CoreIdle
    /\ ExtraIdle

\* runGroverAlgorithm stores the circuit; the run handler passes it on
CreateCircuit ==
    /\ pc = "idle"
    /\ \E n \in GroverQubits, iterations \in GroverIterations :
          \E markedItem \in MarkedItems(n) :
              /\ ~createCircuitThrows(n, markedItem)
              /\ circuit' = createCircuit(n, markedItem, iterations)
    /\ shots' \in 0..MaxShots
    /\ pc' = "start"
    /\ UNCHANGED <<state, thrown, sessionVars, position, classical, returned>>
    /\ UNCHANGED <<previous, extraVars>>

NextGrover ==
    \/ CreateCircuit
    \/ NextRun

SpecGrover == InitGrover /\ [][NextGrover]_vars

(***************************************************************************)
(* Vocabulary of the properties.                                           *)
(***************************************************************************)
\* the amplitude of basis index i
Amplitude(vector, i) == create(vector[i * 2], vector[i * 2 + 1])

Indices(st) == 0..(Pow2(st.qubits) - 1)

RECURSIVE SumOver(_, _)
\* the sum of f over the finite set S of its arguments
SumOver(f, S) ==
    IF S = {} THEN Zero
    ELSE LET x == CHOOSE y \in S : TRUE
         IN  Add(f[x], SumOver(f, S \ {x}))

Probability(st, i) == magSquared(Amplitude(st.vector, i))

TotalProbability(st) == SumOver([i \in Indices(st) |-> Probability(st, i)], Indices(st))

IsBasisState(st, k) == st.vector = BasisState(st.qubits, k).vector

IsSuperposition(st) == \A k \in Indices(st) : ~IsBasisState(st, k)

LastOperation == call.operation

\* the three operation shapes the dispatch policy names
IsSingleQubitOperation(operation) ==
    /\ operation.gate.qubits = 1
    /\ Len(operation.targets) = 1
    /\ Len(operation.controls) = 0

IsTwoQubitOperation(operation) ==
    /\ operation.gate.qubits = 2
    /\ Len(operation.targets) = 2
    /\ Len(operation.controls) = 0

IsControlledNot(operation) ==
    /\ operation.gate.name = "cnot"
    /\ Len(operation.targets) = 1
    /\ Len(operation.controls) = 1

\* C1: every state an applyGate call returns has total probability 1
\* (the gates are the catalog's, the indices distinct and in range, the
\* session starts from a normalized state)
C1_Normalized ==
    call.kind = "applyGate" => TotalProbability(state) = One

\* a second gate application in a row has turned one superposition into another
C1_Witness ==
    /\ calls = 2
    /\ call.kind = "applyGate"
    /\ Dispatch(LastOperation) \in {"single", "two"}
    /\ IsSuperposition(given)
    /\ IsSuperposition(state)
    /\ state.vector # given.vector

\* the pairwise update of the amplitudes by the 2x2 matrix on qubit t
PairwiseUpdate(st, matrix, t) ==
    [idx \in DOMAIN st.vector |->
        LET i == idx \div 2
            cur == Amplitude(st.vector, i)
            other == Amplitude(st.vector, Flip(i, t))
            new == IF Bit(i, t) = 0
                   THEN add(multiply(M(matrix, 0, 0), cur), multiply(M(matrix, 0, 1), other))
                   ELSE add(multiply(M(matrix, 1, 0), other), multiply(M(matrix, 1, 1), cur))
        IN  IF idx % 2 = 0 THEN new.real ELSE new.imag]

\* C2: applyGate with an arity-1 gate, one target and no controls returns
\* the pairwise update of the given state by the gate's matrix on the
\* target (Pauli-X takes the 1-qubit |0> to |1>)
C2_SingleQubitUpdate ==
    (call.kind = "applyGate" /\ IsSingleQubitOperation(LastOperation))
        => state.vector =
               PairwiseUpdate(given, LastOperation.gate.matrix, LastOperation.targets[1])

\* C3: applyGate with the catalog cnot, controls = [c], targets = [t] takes
\* the basis state i to i XOR 2^t when bit c of i is 1 and leaves it
\* unchanged otherwise
C3_CnotTruthTable ==
    \A i \in Indices(given) :
        (/\ call.kind = "applyGate"
         /\ LastOperation.gate = cnot
         /\ IsControlledNot(LastOperation)
         /\ IsBasisState(given, i))
            => LET c == LastOperation.controls[1]
                   t == LastOperation.targets[1]
               IN  IsBasisState(state, IF Bit(i, c) = 1 THEN Flip(i, t) ELSE i)

\* C5: applyGate on an operation of none of the three specialized shapes
\* raises UnsupportedOperationShape
C5_UnsupportedSignalled ==
    (/\ call.kind = "applyGate"
     /\ ~IsSingleQubitOperation(LastOperation)
     /\ ~IsTwoQubitOperation(LastOperation)
     /\ ~IsControlledNot(LastOperation))
        => thrown = "UnsupportedOperationShape"

(***************************************************************************)
(* Circuit runs.                                                           *)
(***************************************************************************)
\* Hadamard on qubit 0, then CNOT with control 0 and target 1
BellOperations ==
    <<Operation(hadamard, <<0>>, << >>), Operation(cnot, <<1>>, <<0>>)>>

\* C4: runCircuit on the 2-qubit circuit [Hadamard on 0; CNOT 0 -> 1]
\* returns two equal amplitudes on the basis states 00 and 11 and nothing
\* elsewhere: the probabilities 0.5, 0, 0, 0.5
C4_BellState ==
    (/\ pc = "done"
     /\ shots = 0
     /\ circuit.numQubits = 2
     /\ circuit.operations = BellOperations)
        => LET final == returned.finalState
           IN  /\ Amplitude(final.vector, 0) = Amplitude(final.vector, 3)
               /\ Probability(final, 0) = Half
               /\ Probability(final, 1) = Zero
               /\ Probability(final, 2) = Zero
               /\ Probability(final, 3) = Half

\* amplitude 1 at index 0, 0 elsewhere
ZeroState(n) == BasisState(n, 0)

\* C6: runCircuit starts from the all-zero basis state and applies the
\* operations one at a time in list order: after k iterations the state is
\* the fold of applyGate over the first k operations, and the state that
\* reaches the measurement branch is the fold over the whole list
C6_FoldInOrder ==
    /\ pc = "gates" =>
           state = FoldGates(ZeroState(circuit.numQubits),
                             SubSeq(circuit.operations, 1, position - 1))
    /\ (pc = "done" /\ shots = 0) =>
           returned.finalState = FoldGates(ZeroState(circuit.numQubits), circuit.operations)

\* two different operations were applied, and in the other order they
\* would have given another state
C6_Witness ==
    /\ pc = "done"
    /\ shots = 0
    /\ Len(circuit.operations) = 2
    /\ returned.finalState # ZeroState(circuit.numQubits)
    /\ returned.finalState #
           FoldGates(ZeroState(circuit.numQubits),
                     <<circuit.operations[2], circuit.operations[1]>>)

(***************************************************************************)
(* Measurement and sampling.                                               *)
(***************************************************************************)
LastQubit == call.qubit
LastRandoms == call.randoms
LastOutcome == IF measured THEN 1 ELSE 0

\* P(1): the probability of the basis indices whose bit q is 1
ProbabilityOfOne(st, q) ==
    LET ones == {i \in Indices(st) : Bit(i, q) = 1}
    IN  SumOver([i \in ones |-> Probability(st, i)], ones)

\* C7: measure returns 1 exactly when the draw is below P(1); the returned
\* state is zero wherever bit q differs from the outcome, keeps the other
\* amplitudes in proportion and has total probability 1
C7_MeasureCollapse ==
    call.kind = "measure" =>
        LET kept == {i \in Indices(given) : Bit(i, LastQubit) = LastOutcome}
        IN  /\ measured = Less(LastRandoms[1], ProbabilityOfOne(given, LastQubit))
            /\ \A i \in Indices(given) \ kept : Amplitude(state.vector, i) = C0
            /\ \A i \in kept : \A j \in kept :
                   multiply(Amplitude(state.vector, i), Amplitude(given.vector, j))
                       = multiply(Amplitude(state.vector, j), Amplitude(given.vector, i))
            /\ TotalProbability(state) = One

\* C8: measuring qubit q of the basis state k returns bit q of k whatever
\* the draw, and returns the basis state k again
C8_BasisMeasurement ==
    \A k \in Indices(given) :
        (call.kind = "measure" /\ IsBasisState(given, k))
            => /\ measured = (Bit(k, LastQubit) = 1)
               /\ IsBasisState(state, k)

\* qubit 1 of the basis state 2 measured 1 under the largest draw
C8_Witness ==
    /\ call.kind = "measure"
    /\ IsBasisState(given, 2)
    /\ LastQubit = 1
    /\ LastRandoms = <<Num(7, 0, 3)>>
    /\ measured
    /\ IsBasisState(state, 2)

\* the prefix sum of the probabilities through index k
PrefixSum(st, k) == SumOver([i \in 0..k |-> Probability(st, i)], 0..k)

\* the indices a scan from 0 stops at: the first whose prefix sum exceeds r
ScanStops(st, r) ==
    {k \in Indices(st) :
        /\ Less(r, PrefixSum(st, k))
        /\ \A j \in 0..(k - 1) : ~Less(r, PrefixSum(st, j))}

\* the digits of basis index k on n qubits, most significant first
BitString(k, n) == [p \in 1..n |-> Bit(k, n - p)]

\* C9: for every shot the binary search selects the index a linear scan
\* from 0 selects, the smallest whose prefix sum exceeds the draw, and the
\* keys returned are the bit-strings of those indices
C9_BinarySearchIsScan ==
    call.kind = "sampleMeasurements" =>
        /\ \A j \in DOMAIN LastRandoms :
               ScanStops(given, LastRandoms[j]) = {SampleOutcome(given, LastRandoms[j])}
        /\ \A j \in DOMAIN LastRandoms : \A k \in ScanStops(given, LastRandoms[j]) :
               BitString(k, given.qubits) \in DOMAIN results
        /\ \A key \in DOMAIN results : \E j \in DOMAIN LastRandoms :
               \E k \in ScanStops(given, LastRandoms[j]) : key = BitString(k, given.qubits)

\* a draw of 1/2 on prefix sums 1/4, 1/2, 1, 1 selected index 2
C9_Witness ==
    /\ call.kind = "sampleMeasurements"
    /\ given.vector = UnevenState(2).vector
    /\ \E j \in DOMAIN LastRandoms :
          LastRandoms[j] = Half /\ ScanStops(given, LastRandoms[j]) = {2}
    /\ <<1, 0>> \in DOMAIN results

AddQuotients(x, y) == Quotient(x.num * y.den + y.num * x.den, x.den * y.den)

RECURSIVE FrequencySumOver(_, _)
FrequencySumOver(res, keys) ==
    IF keys = {} THEN Quotient(0, 1)
    ELSE LET key == CHOOSE x \in keys : TRUE
         IN  AddQuotients(res[key].frequency, FrequencySumOver(res, keys \ {key}))

\* the sum of the frequencies of a result map
FrequencySum(res) == FrequencySumOver(res, DOMAIN res)

\* C10 as stated: for every shot count >= 0 the returned frequencies sum to 1
C10_FrequenciesSumToOne ==
    call.kind = "sampleMeasurements" => FrequencySum(results) = Quotient(1, 1)

\* C10 amended: for every shot count >= 1 the returned frequencies sum to
\* 1; with no shot the map is empty
C10_FrequenciesSumToOneWithShots ==
    call.kind = "sampleMeasurements" =>
        IF Len(LastRandoms) >= 1
        THEN FrequencySum(results) = Quotient(1, 1)
        ELSE results = NoResults

\* two shots fell on the same bit-string of a superposition
C10_Witness ==
    /\ call.kind = "sampleMeasurements"
    /\ Len(LastRandoms) = 2
    /\ IsSuperposition(given)
    /\ \E key \in DOMAIN results : results[key].frequency = Quotient(1, 1)

(***************************************************************************)
(* The three measurement modes of runCircuit.                              *)
(***************************************************************************)
\* the basis indices a state has an amplitude on
Populated(st) == {i \in Indices(st) : Probability(st, i) # Zero}

\* the engine calls a run has made when its gate loop is over
CallsBeforeMeasurement == 1 + Len(circuit.operations)

\* the classical indices of the list are distinct and form 0..m-1
ClassicalIndicesComplete(measurements) ==
    /\ \A j, k \in DOMAIN measurements :
           measurements[j].classical = measurements[k].classical => j = k
    /\ {measurements[j].classical : j \in DOMAIN measurements}
           = 0..(Len(measurements) - 1)

\* C11: runCircuit(circuit, 1) makes one measure call per assignment, in
\* list order, each on the state the one before returned; the map returned
\* has one entry, of probability 1, whose key has one digit per assignment,
\* the digit at position c being the outcome of the qubit assigned to
\* classical bit c (the value that qubit has in the collapsed final state)
C11_SingleShot ==
    LET ms == circuit.measurements
    IN  /\ (pc = "measure" /\ position > 1) =>
               /\ call.kind = "measure"
               /\ call.qubit = ms[position - 1].qubit
               /\ calls = CallsBeforeMeasurement + position - 1
        /\ (pc = "done" /\ shots = 1 /\ ClassicalIndicesComplete(ms)) =>
               /\ calls = CallsBeforeMeasurement + Len(ms)
               /\ Cardinality(DOMAIN returned.measurements) = 1
               /\ \A key \in DOMAIN returned.measurements :
                      /\ Len(key) = Len(ms)
                      /\ returned.measurements[key].probability = One
                      /\ returned.measurements[key].state = key
                      /\ \A j \in DOMAIN ms :
                             \A i \in Populated(returned.finalState) :
                                 Bit(i, ms[j].qubit) = key[ms[j].classical + 1]

\* qubit 0, measured 1, is reported at classical bit 1 and qubit 1,
\* measured 0, at classical bit 0
C11_Witness ==
    /\ pc = "done"
    /\ shots = 1
    /\ circuit.measurements = <<Assignment(0, 1), Assignment(1, 0)>>
    /\ DOMAIN returned.measurements = {<<0, 1>>}
    /\ IsBasisState(returned.finalState, 1)
    /\ calls = CallsBeforeMeasurement + 2

\* C12: with shots > 1 every key returned carries, at the classical index
\* assigned to a qubit, the bit that qubit has in a basis index the final
\* state is populated on, as in single-shot mode
C12_KeysFollowClassicalIndices ==
    LET ms == circuit.measurements
    IN  (pc = "done" /\ shots > 1 /\ ms # << >> /\ ClassicalIndicesComplete(ms)) =>
            \A key \in DOMAIN returned.measurements :
                \E i \in Populated(returned.finalState) :
                    \A j \in DOMAIN ms :
                        /\ ms[j].classical + 1 \in DOMAIN key
                        /\ key[ms[j].classical + 1] = Bit(i, ms[j].qubit)

\* C13: runCircuit(circuit, 0) makes no measure and no sampleMeasurements
\* call and takes no draw; the map returned is empty and finalState is the
\* state the last gate application returned, with nothing attached to it,
\* whatever circuit.measurements holds
C13_NoMeasurement ==
    (pc = "done" /\ shots = 0) =>
        /\ returned.measurements = NoResults
        /\ returned.finalState = state
        /\ returned.finalState = FoldGates(createState(circuit.numQubits), circuit.operations)
        /\ returned.finalState.probabilities = NoProbabilities
        /\ call.kind \in {"createState", "applyGate"}
        /\ call.randoms = << >>
        /\ calls = CallsBeforeMeasurement
        /\ classical = << >>

\* a circuit that lists measurements returned a superposition untouched
C13_Witness ==
    /\ pc = "done"
    /\ shots = 0
    /\ Len(circuit.measurements) = 2
    /\ Len(circuit.operations) >= 1
    /\ IsSuperposition(returned.finalState)
    /\ returned.measurements = NoResults

(***************************************************************************)
(* The state objects passed to the engine.                                 *)
(***************************************************************************)
\* C14: on every path of applyGate the amplitude buffer of the state passed
\* in is, after the call, element for element what it was before the call
C14_InputVectorUnchanged ==
    [][call'.kind = "applyGate" =>
          /\ DOMAIN given'.vector = DOMAIN state.vector
          /\ \A idx \in DOMAIN state.vector : given'.vector[idx] = state.vector[idx]]_vars

\* a second call changed the amplitudes it returned and left those of the
\* state of the first call, still held, as they were
C14_Witness ==
    /\ calls = 2
    /\ call.kind = "applyGate"
    /\ Dispatch(LastOperation) = "two"
    /\ LastOperation.gate = swap
    /\ state.vector # given.vector
    /\ given.vector = UnevenState(2).vector

\* C15: measure leaves the state object passed in as it was, field for
\* field: the qubit count, the amplitude buffer, and the probability cache,
\* absent if it was absent; the collapsed state is another value
C15_MeasureInputUnchanged ==
    [][call'.kind = "measure" =>
          /\ given'.qubits = state.qubits
          /\ given'.vector = state.vector
          /\ given'.probabilities = state.probabilities]_vars

\* the cache of a state, when it has one, is |amplitude|^2 of its buffer
CacheValid(st) ==
    st.probabilities # NoProbabilities =>
        /\ DOMAIN st.probabilities = Indices(st)
        /\ \A i \in Indices(st) : st.probabilities[i] = Probability(st, i)

HasOutOfRange(c) ==
    \E j \in DOMAIN c.operations :
        \E list \in {c.operations[j].targets, c.operations[j].controls} :
            \E k \in DOMAIN list : list[k] \notin Qubits(c.numQubits)

\* C17: a run on a circuit with an out-of-range target or control index
\* applies no gate, raises IndexOutOfRange and returns no result
C17_IndexOutOfRange ==
    HasOutOfRange(circuit) =>
        /\ call.kind \notin {"applyGate", "measure", "sampleMeasurements"}
        /\ pc # "done"
        /\ returned = NoResult
        /\ pc \notin {"start", "gates"} => thrown = "IndexOutOfRange"

\* C18: createState on a qubit count <= 0 is rejected with an error and
\* leaves the run without a state
C18_InvalidDimension ==
    (circuit.numQubits <= 0 /\ pc # "start") =>
        /\ thrown # "none"
        /\ state = NoState
        /\ returned = NoResult

\* the probability mass of the half of the state passed to the last measure
\* that its outcome retains
LastRetainedMass ==
    RetainedMass(given.vector, LastQubit, LastOutcome, 0, Pow2(given.qubits))

\* C19: a measure call whose outcome retains no probability mass raises
\* DegenerateCollapse and returns no state with NaN or infinite amplitudes
C19_DegenerateCollapse ==
    (call.kind = "measure" /\ LastRetainedMass = Zero) =>
        /\ thrown = "DegenerateCollapse"
        /\ \A idx \in DOMAIN state.vector : IsFinite(state.vector[idx])

(***************************************************************************)
(* Relations between gate applications.                                    *)
(***************************************************************************)
\* the last two calls applied the same operation, the second to the state
\* the first returned
SameOperationTwice ==
    /\ call.kind = "applyGate"
    /\ previous.call.kind = "applyGate"
    /\ call.operation = previous.call.operation
    /\ given = applyGate(previous.given, previous.call.operation)

\* C20: the Hadamard applied through applyGate to the same target twice in
\* succession returns the amplitudes of the state the first call was given
\* (for the target list [t], and for a list with a second qubit after t)
C20_HadamardInvolution ==
    (SameOperationTwice /\ call.operation.gate = hadamard) =>
        state.vector = previous.given.vector

\* the Hadamard on target 1 alone went twice over a superposition
C20_Witness ==
    /\ SameOperationTwice
    /\ call.operation = Operation(hadamard, <<1>>, << >>)
    /\ previous.given.vector = UnevenState(2).vector
    /\ state.vector = UnevenState(2).vector

(***************************************************************************)
(* Executions side by side.                                                *)
(***************************************************************************)
\* the result of a runCircuit call that runs alone
RunAlone(c, n, draws) ==
    Finish(FoldGates(createState(c.numQubits), c.operations), c, n, draws)

\* C21: two runCircuit calls interleaved in any order at the steps of their
\* gate loops each hold, at every step, the state the call alone would
\* hold there (none before the call has created its own), and each returns
\* the final state and the result it returns alone on the same draws
C21_ExecutionsIndependent ==
    \A p \in DOMAIN runs :
        /\ runs[p].pc = "start" => slots[p] = NoState
        /\ runs[p].pc = "gates" =>
               slots[p] = FoldGates(createState(runs[p].circuit.numQubits),
                                    SubSeq(runs[p].circuit.operations, 1,
                                           runs[p].position - 1))
        /\ runs[p].pc = "done" =>
               runs[p].returned = RunAlone(runs[p].circuit, runs[p].shots, runs[p].draws)

\* both calls are inside their gate loops, one gate applied each, on
\* different circuits and different states
C21_Witness ==
    /\ DOMAIN runs = Executions
    /\ \A p \in Executions : runs[p].pc = "gates" /\ runs[p].position = 2
    /\ runs[1].circuit # runs[2].circuit
    /\ slots[1] # slots[2]
    /\ IsSuperposition(slots[1])

(***************************************************************************)
(* The run handler.                                                        *)
(***************************************************************************)
\* C22: when a run of the handler has ended, isSimulating is false again;
\* if the worker's runCircuit failed, the error message is set and the
\* stored result is the one stored before the run; if it succeeded, the
\* stored result is the worker's and the error is cleared
C22_RunHandlerSettles ==
    ui.pc = "idle" =>
        /\ ~ui.isSimulating
        /\ ui.settled = "rejected" =>
               /\ ui.error = [prefix |-> "Simulation error: ", message |-> ui.message]
               /\ ui.error # NoError
               /\ ui.simulationResult = ui.stored
        /\ ui.settled = "resolved" =>
               /\ ui.simulationResult = ui.delivered
               /\ ui.error = NoError

\* a run has failed while a result of an earlier run was stored
C22_Witness ==
    /\ ui.pc = "idle"
    /\ ui.settled = "rejected"
    /\ ui.stored # NoResult
    /\ ui.simulationResult = ui.stored
    /\ ui.error # NoError

(***************************************************************************)
(* QASM export and import.                                                 *)
(***************************************************************************)
\* C23: parsing the text generated from a circuit of catalog gates with
\* in-range indices gives the circuit back: the same qubit count, the same
\* operations in order and the same measurement assignments in order
C23_RoundTrip ==
    text.pc = "parsed" => text.parsed = text.circuit

(***************************************************************************)
(* Grover search.                                                          *)
(***************************************************************************)
\* the total probability of the basis states whose qubits 0..Len(item)-1
\* spell the item, character i being qubit i
AssignmentMass(st, item) ==
    LET spelled == {i \in Indices(st) :
                       \A q \in 0..(Len(item) - 1) : Bit(i, q) = item[q + 1]}
    IN  SumOver([i \in spelled |-> Probability(st, i)], spelled)

\* C24: after the run of the circuit createCircuit builds for a marked item
\* with the optimal iteration count, the marked assignment of the search
\* qubits carries more probability in the final state than any other
C24_GroverFindsMarked ==
    \A n \in GroverQubits : \A markedItem \in MarkedItems(n) :
        (/\ pc = "done"
         /\ circuit = createCircuit(n, markedItem, calculateOptimalIterations(n)))
            => \A other \in MarkedItems(n) \ {markedItem} :
                   Less(AssignmentMass(returned.finalState, other),
                        AssignmentMass(returned.finalState, markedItem))

(***************************************************************************)
(* The two-qubit block update.                                             *)
(***************************************************************************)
\* the 2-bit pattern of index i on the pair, qubit a the high bit
PairPattern(i, a, b) == Bit(i, a) * 2 + Bit(i, b)

\* index i with the pair set to pattern p
WithPattern(i, a, b, p) ==
    LET high == IF Bit(i, a) # p \div 2 THEN Flip(i, a) ELSE i
    IN  IF Bit(high, b) # p % 2 THEN Flip(high, b) ELSE high

\* what the 4x4 matrix applied to the pair leaves at index k: the sum over
\* the patterns p of matrix[q][p] * amp[k with the pair at p], q the
\* pattern of k
BlockAmplitude(st, matrix, a, b, k) ==
    LET q == PairPattern(k, a, b)
        term(p) == multiply(M(matrix, q, p), Amplitude(st.vector, WithPattern(k, a, b, p)))
    IN  add(add(term(0), term(1)), add(term(2), term(3)))

\* index i with the bits a and b exchanged
ExchangeBits(i, a, b) == WithPattern(i, a, b, Bit(i, b) * 2 + Bit(i, a))

\* C25: applyGate with an arity-2 gate on two distinct in-range targets
\* [a, b] and no controls returns the state the gate's 4x4 matrix gives on
\* that pair, a the high bit of the pattern; SWAP moves every amplitude to
\* the index with bits a and b exchanged, and SWAP twice on the same pair
\* gives the original state back
C25_TwoQubitBlock ==
    (call.kind = "applyGate" /\ call.operation \in PairOperations(given.qubits)) =>
        LET a == call.operation.targets[1]
            b == call.operation.targets[2]
        IN  /\ state.qubits = given.qubits
            /\ \A k \in Indices(given) :
                   Amplitude(state.vector, k) =
                       BlockAmplitude(given, call.operation.gate.matrix, a, b, k)
            /\ call.operation.gate = swap =>
                   \A k \in Indices(given) :
                       Amplitude(state.vector, ExchangeBits(k, a, b)) =
                           Amplitude(given.vector, k)
            /\ (call.operation.gate = swap /\ previous.call = call) =>
                   state.vector = previous.given.vector

\* SWAP has been applied twice to qubits 2 and 0 of a three-qubit state it
\* changes
C25_Witness ==
    /\ call.kind = "applyGate"
    /\ call.operation = Operation(swap, <<2, 0>>, << >>)
    /\ previous.call = call
    /\ state.qubits = 3
    /\ given.vector # state.vector
    /\ state.vector = previous.given.vector

(***************************************************************************)
(* The matrices of the catalog.                                            *)
(***************************************************************************)
conjugate(a) == create(a.real, Neg(a.imag))

RECURSIVE SumComplex(_, _)
\* the sum of f over the indices of the set S
SumComplex(f, S) ==
    IF S = {} THEN C0
    ELSE LET x == CHOOSE y \in S : TRUE
         IN  add(f[x], SumComplex(f, S \ {x}))

IsSquare(matrix, dim) ==
    Len(matrix) = dim /\ \A r \in 1..dim : Len(matrix[r]) = dim

\* matrix times its conjugate transpose is the identity
IsUnitary(matrix) ==
    LET dim == Len(matrix)
    IN  \A r \in 1..dim, c \in 1..dim :
            SumComplex([m \in 1..dim |-> multiply(matrix[r][m], conjugate(matrix[c][m]))],
                       1..dim)
                = IF r = c THEN C1r ELSE C0

\* exactly one entry 1 in every row and every column, every other entry 0
IsPermutation(matrix) ==
    LET dim == Len(matrix)
    IN  /\ \A r \in 1..dim, c \in 1..dim : matrix[r][c] \in {C0, C1r}
        /\ \A r \in 1..dim : Cardinality({c \in 1..dim : matrix[r][c] = C1r}) = 1
        /\ \A c \in 1..dim : Cardinality({r \in 1..dim : matrix[r][c] = C1r}) = 1

\* C26: the matrix of every catalog gate applied is square of dimension
\* 2^arity and unitary; those of cnot, swap and toffoli are permutation
\* matrices, and toffoli's fixes the indices 0..5 and exchanges 6 and 7
C26_CatalogMatrices ==
    call.kind = "applyGate" =>
        LET gate == call.operation.gate
        IN  /\ gate \in standardGates
            /\ IsSquare(gate.matrix, Pow2(gate.qubits))
            /\ IsUnitary(gate.matrix)
            /\ gate.name \in {"cnot", "swap", "toffoli"} => IsPermutation(gate.matrix)
            /\ gate.name = "toffoli" =>
                   /\ \A k \in 0..5 : M(gate.matrix, k, k) = C1r
                   /\ M(gate.matrix, 6, 7) = C1r
                   /\ M(gate.matrix, 7, 6) = C1r

\* the three-qubit gate has been looked up and applied after another gate
C26_Witness ==
    /\ call.kind = "applyGate"
    /\ call.operation.gate.name = "toffoli"
    /\ Len(call.operation.gate.matrix) = 8
    /\ calls = 2

(***************************************************************************)
(* The two forms of a CNOT.                                                *)
(***************************************************************************)
\* C27: applyGate with the catalog cnot as a controlled operation
\* (controls = [c], targets = [t]) returns the amplitudes that applyGate
\* with cnot on targets = [c, t] and no controls returns on the same state
C27_CnotFormsAgree ==
    (call.kind = "applyGate" /\ CNOTShape(call.operation)) =>
        state.vector =
            applyGate(given, Operation(cnot, call.operation.controls \o call.operation.targets,
                                       << >>)).vector

(***************************************************************************)
(* Measuring again.                                                        *)
(***************************************************************************)
\* C28: when a state returned by measure on a normalized state is measured
\* again on the same qubit, the outcome is the same whatever the draw and
\* the state returned has the amplitudes of the state passed
C28_MeasurementRepeatable ==
    (/\ call.kind = "measure"
     /\ previous.call.kind = "measure"
     /\ previous.call.qubit = call.qubit
     /\ TotalProbability(previous.given) = One) =>
        /\ measured = previous.measured
        /\ state.vector = given.vector

(***************************************************************************)
(* The keys of a sample.                                                   *)
(***************************************************************************)
\* C29: every key sampleMeasurements returns on a normalized state is the
\* bit-string, qubits long and most significant qubit first, of a basis
\* state of non-zero probability, reported with that state's |amplitude|^2
C29_SampledKeysPopulated ==
    (call.kind = "sampleMeasurements" /\ TotalProbability(given) = One) =>
        \A key \in DOMAIN results :
            /\ Len(key) = given.qubits
            /\ \E i \in Indices(given) :
                  /\ key = BitString(i, given.qubits)
                  /\ Probability(given, i) # Zero
                  /\ results[key].probability = Probability(given, i)

(***************************************************************************)
(* The final state of a single-shot run.                                   *)
(***************************************************************************)
\* the classical indices of a measurement list are distinct and in range
ClassicalIndicesDistinct(ms) ==
    /\ \A j \in DOMAIN ms : ms[j].classical \in 0..(Len(ms) - 1)
    /\ \A j \in DOMAIN ms : \A k \in DOMAIN ms :
           ms[j].classical = ms[k].classical => j = k

\* C30: after runCircuit(circuit, 1) on a circuit whose classical indices
\* are distinct and in range, finalState is the state the last measure
\* returned, every basis index it has an amplitude on has, for every
\* assignment (q, c), bit q equal to the digit at position c of the one key
\* reported, and its total probability is 1
C30_FinalStateAgrees ==
    (pc = "done" /\ shots = 1 /\ ClassicalIndicesDistinct(circuit.measurements)) =>
        /\ returned.finalState = state
        /\ TotalProbability(returned.finalState) = One
        /\ \A key \in DOMAIN returned.measurements :
               \A j \in DOMAIN circuit.measurements :
                   \A i \in Populated(returned.finalState) :
                       Bit(i, circuit.measurements[j].qubit)
                           = key[circuit.measurements[j].classical + 1]

====
